---- MODULE Spec2Model ----
(***************************************************************************)
(* AskMeAnything: the intent router (agents/intent_router.py) and the      *)
(* dispatcher with fallback escalation (agents/manager.py).                *)
(*                                                                         *)
(* A Python str is a sequence of one-character strings, so that lower(),   *)
(* strip(), len() and the substring test `p in s` are computed and not     *)
(* assumed.  Python None is the one-element sequence NoneVal.              *)
(***************************************************************************)
EXTENDS Integers, Sequences, FiniteSets, TLC

(* ---------------------------------------------------------------------- *)
(* Characters and str methods                                             *)
(* ---------------------------------------------------------------------- *)
NoneVal == <<"<None>">>

Uppers == <<"A","B","C","D","E","F","G","H","I","J","K","L","M",
            "N","O","P","Q","R","S","T","U","V","W","X","Y","Z">>

Lowers == <<"a","b","c","d","e","f","g","h","i","j","k","l","m",
            "n","o","p","q","r","s","t","u","v","w","x","y","z">>

Digits == {"0","1","2","3","4","5","6","7","8","9"}

Letters == {Uppers[i] : i \in 1..26} \cup {Lowers[i] : i \in 1..26}

Whitespace == {" ", "\t", "\n", "\r"}

\* letters outside ASCII that queries of the model may hold: U+03B1 (alpha) and
\* U+03C0 (pi); both are lower-case, so str.lower() leaves them alone
UnicodeLetters == {"U+03B1", "U+03C0"}

\* the characters regex \w matches (a str pattern matches Unicode word characters)
WordChars == Letters \cup UnicodeLetters \cup Digits \cup {"_"}

\* str.lower() on one character
LowerChar(c) ==
  IF \E i \in 1..26 : Uppers[i] = c
  THEN Lowers[CHOOSE i \in 1..26 : Uppers[i] = c]
  ELSE c

\* str.lower()
Lower(s) == [i \in 1..Len(s) |-> LowerChar(s[i])]

\* str.strip(): drop leading and trailing whitespace
Strip(s) ==
  LET keep == {i \in 1..Len(s) : s[i] \notin Whitespace}
  IN  IF keep = {} THEN <<>>
      ELSE LET lo == CHOOSE i \in keep : \A j \in keep : i <= j
               hi == CHOOSE i \in keep : \A j \in keep : j <= i
           IN  SubSeq(s, lo, hi)

\* s[i:].startswith(p), i counted from 1
MatchAt(p, s, i) ==
  /\ i + Len(p) - 1 <= Len(s)
  /\ \A j \in 1..Len(p) : s[i + j - 1] = p[j]

\* the substring test `p in s`
Contains(p, s) == \E i \in 1..(Len(s) + 1) : MatchAt(p, s, i)

Truthy_not_none(v) == v # NoneVal

\* bool(v) for a str-or-None value
Truthy(v) == v # NoneVal /\ v # <<>>

(* ---------------------------------------------------------------------- *)
(* Trigger table: IntentRouter.AGENT_KEYWORDS                             *)
(* ---------------------------------------------------------------------- *)
Keywords_Math ==
  << <<"c","a","l","c","u","l","a","t","e">>, <<"m","a","t","h">>,
     <<"e","q","u","a","t","i","o","n">>, <<"s","o","l","v","e">>, <<"a","l","g","e","b","r","a">>,
     <<"g","e","o","m","e","t","r","y">>, <<"f","o","r","m","u","l","a">>, <<"a","d","d">>,
     <<"s","u","b","t","r","a","c","t">>, <<"m","u","l","t","i","p","l","y">>,
     <<"d","i","v","i","d","e">>, <<"a","r","i","t","h","m","e","t","i","c">>,
     <<"n","u","m","b","e","r">>, <<"f","r","a","c","t","i","o","n">>,
     <<"d","e","c","i","m","a","l">>, <<"p","e","r","c","e","n","t","a","g","e">>,
     <<"r","a","t","i","o">>, <<"p","r","o","p","o","r","t","i","o","n">> >>

PatternWords_Math ==
  { <<"c","a","l","c","u","l","a","t","e">>, <<"s","o","l","v","e">>, <<"m","a","t","h">>,
    <<"e","q","u","a","t","i","o","n">>, <<"a","l","g","e","b","r","a">>,
    <<"g","e","o","m","e","t","r","y">>, <<"a","r","i","t","h","m","e","t","i","c">>,
    <<"f","o","r","m","u","l","a">>, <<"a","d","d">>, <<"s","u","b","t","r","a","c","t">>,
    <<"m","u","l","t","i","p","l","y">>, <<"d","i","v","i","d","e">> }

Keywords_APSTEM ==
  << <<"d","e","r","i","v","a","t","i","v","e">>, <<"i","n","t","e","g","r","a","l">>,
     <<"c","a","l","c","u","l","u","s">>, <<"p","h","y","s","i","c","s">>,
     <<"c","h","e","m","i","s","t","r","y">>, <<"b","i","o","l","o","g","y">>,
     <<"s","t","a","t","i","s","t","i","c","s">>, <<"q","u","a","n","t","u","m">>,
     <<"t","h","e","r","m","o","d","y","n","a","m","i","c","s">>,
     <<"k","i","n","e","m","a","t","i","c","s">>, <<"d","i","f","f">>, <<"d","/","d","x">>,
     <<"d","i","f","f","e","r","e","n","t","i","a","l">>,
     <<"i","n","t","e","g","r","a","t","i","o","n">>, <<"l","i","m","i","t">>,
     <<"s","e","r","i","e","s">>, <<"s","e","q","u","e","n","c","e">>, <<"f","o","r","c","e">>,
     <<"e","n","e","r","g","y">>, <<"m","o","m","e","n","t","u","m">>,
     <<"a","c","c","e","l","e","r","a","t","i","o","n">>, <<"v","e","l","o","c","i","t","y">>,
     <<"m","o","l","e","c","u","l","a","r">>, <<"a","t","o","m">>,
     <<"e","l","e","c","t","r","o","n">>, <<"p","r","o","t","e","i","n">>, <<"d","n","a">>,
     <<"c","e","l","l">>, <<"e","v","o","l","u","t","i","o","n">> >>

PatternWords_APSTEM ==
  { <<"d","e","r","i","v","a","t","i","v","e">>, <<"i","n","t","e","g","r","a","l">>,
    <<"c","a","l","c","u","l","u","s">>, <<"p","h","y","s","i","c","s">>,
    <<"c","h","e","m","i","s","t","r","y">>, <<"b","i","o","l","o","g","y">>,
    <<"s","t","a","t","i","s","t","i","c","s">>, <<"q","u","a","n","t","u","m">>,
    <<"t","h","e","r","m","o","d","y","n","a","m","i","c","s">>,
    <<"k","i","n","e","m","a","t","i","c","s">>,
    <<"d","i","f","f","e","r","e","n","t","i","a","l">>,
    <<"i","n","t","e","g","r","a","t","i","o","n">>, <<"f","o","r","c","e">>,
    <<"e","n","e","r","g","y">>, <<"m","o","m","e","n","t","u","m">>,
    <<"a","c","c","e","l","e","r","a","t","i","o","n">>, <<"v","e","l","o","c","i","t","y">>,
    <<"m","o","l","e","c","u","l","a","r">>, <<"a","t","o","m">>,
    <<"e","l","e","c","t","r","o","n">>, <<"p","r","o","t","e","i","n">>, <<"d","n","a">> }

Keywords_Music ==
  << <<"m","u","s","i","c">>, <<"s","o","n","g">>, <<"a","r","t","i","s","t">>,
     <<"a","l","b","u","m">>, <<"b","a","n","d">>, <<"c","o","n","c","e","r","t">>,
     <<"i","n","s","t","r","u","m","e","n","t">>, <<"c","h","o","r","d">>,
     <<"m","e","l","o","d","y">>, <<"r","h","y","t","h","m">>, <<"b","e","a","t">>,
     <<"p","i","a","n","o">>, <<"g","u","i","t","a","r">>, <<"v","i","o","l","i","n">>,
     <<"j","a","z","z">>, <<"r","o","c","k">>, <<"p","o","p">>,
     <<"c","l","a","s","s","i","c","a","l">>, <<"c","o","m","p","o","s","e","r">>,
     <<"t","u","n","e">>, <<"h","e","a","r">> >>

PatternWords_Music ==
  { <<"m","u","s","i","c">>, <<"s","o","n","g">>, <<"a","r","t","i","s","t">>,
    <<"a","l","b","u","m">>, <<"b","a","n","d">>, <<"c","o","n","c","e","r","t">>,
    <<"i","n","s","t","r","u","m","e","n","t">>, <<"c","h","o","r","d">>,
    <<"m","e","l","o","d","y">>, <<"r","h","y","t","h","m">>, <<"b","e","a","t">>,
    <<"p","i","a","n","o">>, <<"g","u","i","t","a","r">>, <<"v","i","o","l","i","n">>,
    <<"j","a","z","z">>, <<"r","o","c","k">>, <<"p","o","p">>,
    <<"c","l","a","s","s","i","c","a","l">>, <<"c","o","m","p","o","s","e","r">> }

Keywords_Travel ==
  << <<"t","r","a","v","e","l">>, <<"t","r","i","p">>,
     <<"d","e","s","t","i","n","a","t","i","o","n">>, <<"c","i","t","y">>,
     <<"c","o","u","n","t","r","y">>, <<"h","o","t","e","l">>, <<"f","l","i","g","h","t">>,
     <<"a","i","r","p","o","r","t">>, <<"v","i","s","i","t">>, <<"t","o","u","r">>,
     <<"t","o","u","r","i","s","m">>, <<"a","t","t","r","a","c","t","i","o","n">>,
     <<"r","e","s","t","a","u","r","a","n","t">>, <<"l","o","c","a","t","i","o","n">>,
     <<"p","l","a","c","e">>, <<"e","x","p","l","o","r","e">>, <<"j","o","u","r","n","e","y">>,
     <<"v","a","c","a","t","i","o","n">>, <<"b","e","a","c","h">>,
     <<"m","o","u","n","t","a","i","n">> >>

PatternWords_Travel ==
  { <<"t","r","a","v","e","l">>, <<"t","r","i","p">>,
    <<"d","e","s","t","i","n","a","t","i","o","n">>, <<"c","i","t","y">>,
    <<"c","o","u","n","t","r","y">>, <<"h","o","t","e","l">>, <<"f","l","i","g","h","t">>,
    <<"a","i","r","p","o","r","t">>, <<"v","i","s","i","t">>, <<"t","o","u","r">>,
    <<"t","o","u","r","i","s","m">>, <<"a","t","t","r","a","c","t","i","o","n">>,
    <<"r","e","s","t","a","u","r","a","n","t">>, <<"e","x","p","l","o","r","e">>,
    <<"j","o","u","r","n","e","y">>, <<"v","a","c","a","t","i","o","n">>, <<"b","e","a","c","h">>,
    <<"m","o","u","n","t","a","i","n">> }

Keywords_Games ==
  << <<"g","a","m","e">>, <<"p","l","a","y">>, <<"c","h","e","s","s">>, <<"t","r","i","v","i","a">>,
     <<"p","u","z","z","l","e">>, <<"r","i","d","d","l","e">>, <<"c","a","r","d">>,
     <<"d","i","c","e">>, <<"s","p","o","r","t">>, <<"w","i","n">>, <<"l","o","s","e">>,
     <<"s","c","o","r","e">>, <<"r","u","l","e">>, <<"s","t","r","a","t","e","g","y">>,
     <<"q","u","e","s","t","i","o","n">>, <<"a","n","s","w","e","r">>,
     <<"c","h","a","l","l","e","n","g","e">>, <<"c","o","m","p","e","t","e">> >>

PatternWords_Games ==
  { <<"g","a","m","e">>, <<"p","l","a","y">>, <<"c","h","e","s","s">>, <<"t","r","i","v","i","a">>,
    <<"p","u","z","z","l","e">>, <<"r","i","d","d","l","e">>, <<"c","a","r","d">>,
    <<"d","i","c","e">>, <<"s","p","o","r","t">>, <<"w","i","n">>, <<"l","o","s","e">>,
    <<"s","c","o","r","e">>, <<"r","u","l","e">>, <<"s","t","r","a","t","e","g","y">>,
    <<"c","h","a","l","l","e","n","g","e">>, <<"c","o","m","p","e","t","e">> }

Keywords_HighSchool ==
  << <<"h","i","s","t","o","r","y">>, <<"l","i","t","e","r","a","t","u","r","e">>,
     <<"g","o","v","e","r","n","m","e","n","t">>, <<"c","i","v","i","c","s">>,
     <<"e","n","g","l","i","s","h">>, <<"e","s","s","a","y">>, <<"b","o","o","k">>,
     <<"a","u","t","h","o","r">>, <<"w","a","r">>, <<"r","e","v","o","l","u","t","i","o","n">>,
     <<"p","r","e","s","i","d","e","n","t">>, <<"l","a","w">>,
     <<"g","e","o","g","r","a","p","h","y">>, <<"c","u","l","t","u","r","e">>,
     <<"s","o","c","i","e","t","y">>, <<"s","o","c","i","a","l">>, <<"t","o","p","i","c">>,
     <<"q","u","e","s","t","i","o","n">> >>

PatternWords_HighSchool ==
  { <<"h","i","s","t","o","r","y">>, <<"l","i","t","e","r","a","t","u","r","e">>,
    <<"g","o","v","e","r","n","m","e","n","t">>, <<"c","i","v","i","c","s">>,
    <<"e","n","g","l","i","s","h">>, <<"e","s","s","a","y">>, <<"b","o","o","k">>,
    <<"a","u","t","h","o","r">>, <<"w","a","r">>, <<"r","e","v","o","l","u","t","i","o","n">>,
    <<"p","r","e","s","i","d","e","n","t">>, <<"l","a","w">>,
    <<"g","e","o","g","r","a","p","h","y">>, <<"c","u","l","t","u","r","e">>,
    <<"s","o","c","i","e","t","y">> }


\* the identities in the dict's insertion order
Identities == <<"Math", "AP STEM", "Music", "Travel", "Games", "HighSchool">>

AGENT_KEYWORDS ==
  [id \in {Identities[i] : i \in 1..Len(Identities)} |->
     CASE id = "Math"       -> [keywords |-> Keywords_Math,       pattern |-> PatternWords_Math]
       [] id = "AP STEM"    -> [keywords |-> Keywords_APSTEM,     pattern |-> PatternWords_APSTEM]
       [] id = "Music"      -> [keywords |-> Keywords_Music,      pattern |-> PatternWords_Music]
       [] id = "Travel"     -> [keywords |-> Keywords_Travel,     pattern |-> PatternWords_Travel]
       [] id = "Games"      -> [keywords |-> Keywords_Games,      pattern |-> PatternWords_Games]
       [] id = "HighSchool" -> [keywords |-> Keywords_HighSchool, pattern |-> PatternWords_HighSchool]]

(* ---------------------------------------------------------------------- *)
(* Regular-expression helpers                                             *)
(* ---------------------------------------------------------------------- *)
\* position i starts a maximal run of \w characters
IsWordStart(s, i) ==
  /\ s[i] \in WordChars
  /\ (i = 1 \/ s[i - 1] \notin WordChars)

\* last position of the run of \w characters that holds position i
RunEnd(s, i) ==
  CHOOSE j \in i..Len(s) :
    /\ \A k \in i..j : s[k] \in WordChars
    /\ (j = Len(s) \/ s[j + 1] \notin WordChars)

\* len(re.findall(r"\b(w1|w2|...)\b", s)): every alternative is made of \w
\* characters only, so a match is exactly a maximal \w run that is one of
\* the words
WordMatches(words, s) ==
  Cardinality({i \in 1..Len(s) :
                 IsWordStart(s, i) /\ SubSeq(s, i, RunEnd(s, i)) \in words})

\* s[i] in first, then \s*, then a character of second
ThenAfterSpace(s, first, second) ==
  \E i \in 1..Len(s) :
    /\ s[i] \in first
    /\ \E j \in (i + 1)..Len(s) :
         /\ s[j] \in second
         /\ \A k \in (i + 1)..(j - 1) : s[k] \in Whitespace

\* regex \b in front of position i, where s[i] is a \w character
BoundaryBefore(s, i) == i = 1 \/ s[i - 1] \notin WordChars

MathOps == {"=", "+", "-", "*", "/", "^"}

MathFuncs == { <<"s","i","n">>, <<"c","o","s">>, <<"t","a","n">>, <<"l","o","g">>,
               <<"l","n">>, <<"e","x","p">>, <<"s","q","r","t">> }

\* the characters U+03C0, U+00D7, U+00F7 (pi, multiplication and division sign)
MathSymbols == {"U+03C0", "U+00D7", "U+00F7"}

looks_like_math_operators_only(s) == ThenAfterSpace(s, Digits, MathOps)

\* IntentRouter.looks_like_math
looks_like_math(s) ==
  LET low == Lower(s)
      \* \d+\s*[=+\-*/^]
      r1 == ThenAfterSpace(s, Digits, MathOps)
      \* (?<!\d)\.\d+
      r2 == \E i \in 1..(Len(s) - 1) :
              /\ s[i] = "."
              /\ (i = 1 \/ s[i - 1] \notin Digits)
              /\ s[i + 1] \in Digits
      \* \d\s*[a-zA-Z(]  or  \)\s*[a-zA-Z(]
      r3 == \/ ThenAfterSpace(s, Digits, Letters \cup {"("})
            \/ ThenAfterSpace(s, {")"}, Letters \cup {"("})
      \* \\[a-zA-Z]+\( | \\frac | \\sqrt | \b(sin|cos|tan|log|ln|exp|sqrt)\(   (IGNORECASE)
      r4 == \/ \E i \in 1..Len(s) :
                 /\ s[i] = "\\"
                 /\ \E j \in (i + 2)..Len(s) :
                      /\ s[j] = "("
                      /\ \A k \in (i + 1)..(j - 1) : s[k] \in Letters
            \/ Contains(<<"\\","f","r","a","c">>, low)
            \/ Contains(<<"\\","s","q","r","t">>, low)
            \/ \E i \in 1..Len(s), f \in MathFuncs :
                 /\ MatchAt(f \o <<"(">>, low, i)
                 /\ BoundaryBefore(s, i)
      \* [\u03c0\u00d7\u00f7]
      r5 == \E i \in 1..Len(s) : s[i] \in MathSymbols
      \* \bsolve\b | \bdiff(erenti|erivative) | \bintegral\b | \d+[xX] | \btheta\b   (IGNORECASE)
      r6 == \/ WordMatches({<<"s","o","l","v","e">>, <<"i","n","t","e","g","r","a","l">>,
                            <<"t","h","e","t","a">>}, low) > 0
            \/ \E i \in 1..Len(s) :
                 /\ BoundaryBefore(s, i)
                 /\ \/ MatchAt(<<"d","i","f","f","e","r","e","n","t","i">>, low, i)
                    \/ MatchAt(<<"d","i","f","f","e","r","i","v","a","t","i","v","e">>, low, i)
            \/ \E i \in 1..(Len(s) - 1) : s[i] \in Digits /\ s[i + 1] \in {"x", "X"}
  IN  r1 \/ r2 \/ r3 \/ r4 \/ r5 \/ r6

\* the calculus/physics cue words of the AP STEM boost
StemCues == { <<"d","e","r","i","v","a","t","i","v","e">>, <<"i","n","t","e","g","r","a","l">>,
              <<"c","a","l","c","u","l","u","s">>, <<"k","i","n","e","m","a","t","i","c","s">>,
              <<"p","r","o","j","e","c","t","i","l","e">>, <<"f","o","r","c","e">>,
              <<"m","o","m","e","n","t","u","m">> }

(* ---------------------------------------------------------------------- *)
(* Intent scorer.  A score is a Python float.  The float that lies u units *)
(* in the last place from the double nearest to t/10 is kept as the        *)
(* integer UlpScale * t + u, so that the order of the integers is the      *)
(* order of the floats and the rounding of 0.7 * p + 0.3 * k is not lost.  *)
(* ---------------------------------------------------------------------- *)
UlpScale == 4

Float(t, u) == (UlpScale * t) + u

\* the decimal value of a score, in tenths
Tenths(v) == (v + 2) \div UlpScale

\* the weights and boosts, in tenths: 0.7, 0.3, 3.0, 2.0, 2.0
PatternWeight == 7
KeywordWeight == 3
MathBoost == 30
GeometryBoost == 20
StemBoost == 20

\* (pattern_matches, keyword_matches) for which the float
\* (pattern_matches * 0.7) + (keyword_matches * 0.3), after the boosts that sum
\* to `boost` tenths were added, is one unit in the last place below the double
\* nearest to the decimal value; for every other pair of 0..6 x 0..8 it is
\* that double
RoundsDown ==
  [boost \in {0, GeometryBoost, MathBoost, MathBoost + GeometryBoost} |->
     CASE boost = 0 ->
            { <<0,3>>, <<0,6>>, <<1,2>>, <<1,3>>, <<1,8>>, <<2,4>>, <<2,6>>, <<3,0>>, <<3,1>>,
              <<3,2>>, <<3,3>>, <<3,5>>, <<3,6>>, <<3,7>>, <<4,1>>, <<4,3>>, <<4,8>>, <<6,0>>,
              <<6,1>>, <<6,2>>, <<6,4>>, <<6,5>>, <<6,6>>, <<6,7>> }
       [] boost = GeometryBoost ->
            { <<1,3>>, <<2,6>>, <<3,1>>, <<3,2>>, <<3,6>>, <<3,7>>, <<4,3>>, <<4,8>>, <<6,0>>,
              <<6,1>>, <<6,2>>, <<6,4>>, <<6,5>>, <<6,6>>, <<6,7>> }
       [] boost = MathBoost ->
            { <<2,6>>, <<3,1>>, <<3,2>>, <<3,6>>, <<3,7>>, <<4,3>>, <<6,0>>, <<6,1>>, <<6,2>>,
              <<6,4>>, <<6,7>> }
       [] boost = MathBoost + GeometryBoost ->
            { <<3,1>>, <<3,2>>, <<3,6>>, <<6,2>>, <<6,4>>, <<6,7>> }]

\* the float score for p pattern matches, k keyword matches and the boosts applied
float_score(p, k, boost) ==
  CASE p \in 0..6 /\ k \in 0..8 ->
         Float((PatternWeight * p) + (KeywordWeight * k) + boost,
               IF <<p, k>> \in RoundsDown[boost] THEN -1 ELSE 0)

pattern_matches(id, query_lower) == WordMatches(AGENT_KEYWORDS[id].pattern, query_lower)

keyword_matches(id, query_lower) ==
  LET kws == AGENT_KEYWORDS[id].keywords
  IN  Cardinality({k \in 1..Len(kws) : Contains(kws[k], query_lower)})

\* detect_intent: the score of one identity before normalization
score(id, query) ==
  LET query_lower == Lower(query)
  IN  float_score(pattern_matches(id, query_lower),
                  keyword_matches(id, query_lower),
                  (IF id = "Math" /\ looks_like_math(query) THEN MathBoost ELSE 0)
                  + (IF id = "Math"
                        /\ WordMatches({<<"g","e","o","m","e","t","r","y">>}, query_lower) > 0
                     THEN GeometryBoost ELSE 0)
                  + (IF id = "AP STEM" /\ \E c \in StemCues : Contains(c, query_lower)
                     THEN StemBoost ELSE 0))

\* detect_intent: the dict `scores`
scores(query) == [id \in DOMAIN AGENT_KEYWORDS |-> score(id, query)]

(* ---------------------------------------------------------------------- *)
(* Responder names                                                        *)
(* ---------------------------------------------------------------------- *)
LLMAgentName == <<"L","L","M"," ","A","g","e","n","t">>
MathAgentName == <<"M","a","t","h"," ","A","g","e","n","t">>
APSTEMAgentName == <<"A","P"," ","S","T","E","M"," ","A","g","e","n","t">>
MusicAgentName == <<"M","u","s","i","c"," ","A","g","e","n","t">>
TravelAgentName == <<"T","r","a","v","e","l"," ","A","g","e","n","t">>
GamesAgentName == <<"G","a","m","e","s"," ","A","g","e","n","t">>
HighSchoolAgentName == <<"H","i","g","h"," ","S","c","h","o","o","l"," ","A","g","e","n","t">>
SATACTAgentName == <<"S","A","T","/","A","C","T"," ","A","g","e","n","t">>
CollegeAdmissionAgentName ==
  <<"C","o","l","l","e","g","e"," ","A","d","m","i","s","s","i","o","n"," ","A","g","e","n","t">>

\* mutant: the map lacks Math, and name_map.get(best_agent, best_agent) falls
\* back on the identity itself
name_map_without_math ==
  [id \in DOMAIN AGENT_KEYWORDS |->
     CASE id = "Math"       -> <<"M","a","t","h">>
       [] id = "AP STEM"    -> APSTEMAgentName
       [] id = "Music"      -> MusicAgentName
       [] id = "Travel"     -> TravelAgentName
       [] id = "Games"      -> GamesAgentName
       [] id = "HighSchool" -> HighSchoolAgentName]

\* detect_intent's map from identities to the names the manager uses
name_map ==
  [id \in DOMAIN AGENT_KEYWORDS |->
     CASE id = "Math"       -> MathAgentName
       [] id = "AP STEM"    -> APSTEMAgentName
       [] id = "Music"      -> MusicAgentName
       [] id = "Travel"     -> TravelAgentName
       [] id = "Games"      -> GamesAgentName
       [] id = "HighSchool" -> HighSchoolAgentName]

(* ---------------------------------------------------------------------- *)
(* Confidence bucketing and the primary decision                          *)
(* ---------------------------------------------------------------------- *)
\* the divisor of the primary path (best_score / 14.0)
PrimaryNorm == 14

\* the divisor of the suggestion path (score / 12.0)
SuggestNorm == 12

\* the decimal values t/10 below 1.0 * K at which the double nearest to t/10
\* and the float one unit in the last place below it have the same quotient by K
SameQuotient(K) ==
  CASE K = SuggestNorm -> {1, 2, 4, 5, 8, 9, 10, 16, 18, 20, 32, 33, 36, 40, 64, 65, 66,
                           72, 73, 79, 80}
    [] K = PrimaryNorm -> {5, 10, 19, 20, 37, 38, 40, 74, 75, 76, 79, 80}

\* min(score / K, 1.0), kept as the greatest score that has this quotient
normalize(v, K) ==
  IF v >= Float(10 * K, 0) THEN Float(10 * K, 0)
  ELSE IF v = Float(Tenths(v), -1) /\ Tenths(v) \in SameQuotient(K)
       THEN Float(Tenths(v), 0)
       ELSE v

\* the least score whose quotient by K is not < 0.3: the double nearest to 4.2
\* for K = 14.0, the float just below the double nearest to 3.6 for K = 12.0
LowCut(K) ==
  CASE K = PrimaryNorm -> Float(3 * PrimaryNorm, 0)
    [] K = SuggestNorm -> Float(3 * SuggestNorm, -1)

\* the least score whose quotient by K is not < 0.7: the float just below the
\* double nearest to 9.8 for K = 14.0, the double nearest to 8.4 for K = 12.0
HighCut(K) ==
  CASE K = PrimaryNorm -> Float(7 * PrimaryNorm, -1)
    [] K = SuggestNorm -> Float(7 * SuggestNorm, 0)

category_labels_swapped(v, K) ==
  IF normalize(v, K) < LowCut(K) THEN "low"
  ELSE IF normalize(v, K) < HighCut(K) THEN "high"
  ELSE "medium"

\* < 0.3 -> low, < 0.7 -> medium, else high
category(v, K) ==
  IF normalize(v, K) < LowCut(K) THEN "low"
  ELSE IF normalize(v, K) < HighCut(K) THEN "medium"
  ELSE "high"

\* max(scores, key=scores.get): the first identity, in dict order, of maximal score
best_agent(sc) ==
  LET i == CHOOSE i \in 1..Len(Identities) :
             /\ \A j \in 1..Len(Identities) : sc[Identities[j]] <= sc[Identities[i]]
             /\ \A j \in 1..(i - 1) : sc[Identities[j]] < sc[Identities[i]]
  IN  Identities[i]

decide_zero_score_winner(best, best_score) ==
  IF best_score = 0
  THEN [name |-> name_map[best], confidence |-> "low"]
  ELSE IF category(best_score, PrimaryNorm) = "low"
       THEN [name |-> LLMAgentName, confidence |-> "low"]
       ELSE [name |-> name_map[best], confidence |-> category(best_score, PrimaryNorm)]

\* detect_intent from the scores on: (agent_name, confidence)
decide(best, best_score) ==
  IF best_score = 0
  THEN [name |-> LLMAgentName, confidence |-> "low"]
  ELSE IF category(best_score, PrimaryNorm) = "low"
       THEN [name |-> LLMAgentName, confidence |-> "low"]
       ELSE [name |-> name_map[best], confidence |-> category(best_score, PrimaryNorm)]

\* IntentRouter.detect_intent, with the values it computes on the way: whether
\* looks_like_math holds of the query, the dict `scores` and best_agent
detect_intent_run(query) ==
  LET sc == scores(query)
      best == best_agent(sc)
  IN  [math |-> looks_like_math(query), scores |-> sc, best_agent |-> best,
       result |-> decide(best, sc[best])]

\* IntentRouter.detect_intent
detect_intent(query) == detect_intent_run(query).result

(* ---------------------------------------------------------------------- *)
(* The suggestion path                                                     *)
(* ---------------------------------------------------------------------- *)
suggest_score_without_geometry(id, query) ==
  LET query_lower == Lower(query)
      pm == WordMatches(AGENT_KEYWORDS[id].pattern, query_lower)
      kws == AGENT_KEYWORDS[id].keywords
      km == Cardinality({k \in 1..Len(kws) : Contains(kws[k], query_lower)})
      math == id = "Math" /\ looks_like_math(query)
      stem == id = "AP STEM" /\ \E c \in StemCues : Contains(c, query_lower)
  IN  float_score(pm, km, (IF math THEN MathBoost ELSE 0) + (IF stem THEN StemBoost ELSE 0))

\* suggest_agents: the score of one identity before normalization
suggest_score(id, query) ==
  LET query_lower == Lower(query)
      pm == WordMatches(AGENT_KEYWORDS[id].pattern, query_lower)
      kws == AGENT_KEYWORDS[id].keywords
      km == Cardinality({k \in 1..Len(kws) : Contains(kws[k], query_lower)})
      math == id = "Math" /\ looks_like_math(query)
      geometry == id = "Math"
                  /\ WordMatches({<<"g","e","o","m","e","t","r","y">>}, query_lower) > 0
      stem == id = "AP STEM" /\ \E c \in StemCues : Contains(c, query_lower)
  IN  float_score(pm, km,
                  (IF math THEN MathBoost ELSE 0) + (IF geometry THEN GeometryBoost ELSE 0)
                  + (IF stem THEN StemBoost ELSE 0))

\* sorted(scores.items(), key=lambda x: x[1], reverse=True): a stable sort, so
\* identities of equal score keep the order of the dict
sorted_suggestions(sc) ==
  LET n == Len(Identities)
      before(i) == {j \in 1..n : \/ sc[Identities[j]] > sc[Identities[i]]
                                 \/ sc[Identities[j]] = sc[Identities[i]] /\ j < i}
  IN  [r \in 1..n |-> Identities[CHOOSE i \in 1..n : Cardinality(before(i)) = r - 1]]

\* the results of suggest_agents from the normalized scores on
suggestions(sc, top_n) ==
  LET sorted == sorted_suggestions(sc)
      m == IF top_n < Len(sorted) THEN top_n ELSE Len(sorted)
  IN  [r \in 1..m |-> [name |-> name_map[sorted[r]],
                       confidence |-> category(sc[sorted[r]], SuggestNorm)]]

\* the default of suggest_agents' top_n
DefaultTopN == 3

\* IntentRouter.suggest_agents, with the values it computes on the way: `score`
\* of every identity, the dict `scores` and sorted_suggestions
suggest_agents_run(query, top_n) ==
  LET raw == [id \in DOMAIN AGENT_KEYWORDS |-> suggest_score(id, query)]
      sc == [id \in DOMAIN AGENT_KEYWORDS |-> normalize(raw[id], SuggestNorm)]
  IN  [score |-> raw, scores |-> sc, sorted_suggestions |-> sorted_suggestions(sc),
       results |-> suggestions(sc, top_n)]

\* IntentRouter.suggest_agents
suggest_agents(query, top_n) == suggest_agents_run(query, top_n).results

(* ---------------------------------------------------------------------- *)
(* Replies, exceptions and the outcome of one call                        *)
(* ---------------------------------------------------------------------- *)
\* a str reply
Str(t) ==
  [kind |-> "str", text |-> t, has_text |-> TRUE, fallback |-> FALSE,
   fallback_reason |-> <<>>, fallback_from |-> <<>>, extra |-> ""]

\* a dict reply; has_text: the key 'text' is present; extra: another key it carries;
\* an absent 'fallback_reason' or 'fallback_from' is the empty sequence
Dict(t, has_t, fb, reason, extra) ==
  [kind |-> "dict", text |-> t, has_text |-> has_t, fallback |-> fb,
   fallback_reason |-> reason, fallback_from |-> <<>>, extra |-> extra]

NoReply ==
  [kind |-> "none", text |-> <<>>, has_text |-> FALSE, fallback |-> FALSE,
   fallback_reason |-> <<>>, fallback_from |-> <<>>, extra |-> ""]

\* the call returned r
Return(r) == [kind |-> "return", reply |-> r, type |-> "", msg |-> <<>>]

\* the call raised an exception of class t with message m
Raise(t, m) == [kind |-> "raise", reply |-> NoReply, type |-> t, msg |-> m]

\* the call was not made
NotRun == [kind |-> "notrun", reply |-> NoReply, type |-> "", msg |-> <<>>]

\* mutant: the handlers catch the named class only, not its subclasses
IsInstance_exact(type, cls) == type = cls

\* isinstance(e, cls) for the exception classes of the model
IsInstance(type, cls) ==
  \/ type = cls
  \/ cls = "Exception" /\ type \in {"TypeError", "RuntimeError"}

IsTypeError(o) == o.kind = "raise" /\ IsInstance(o.type, "TypeError")

\* the message of the TypeError Python raises when a call passes a keyword
\* the signature does not have
UnexpectedKw ==
  <<"u","n","e","x","p","e","c","t","e","d"," ","k","e","y","w","o","r","d"," ",
    "a","r","g","u","m","e","n","t">>

(* ---------------------------------------------------------------------- *)
(* The registry and the responders' call contracts                        *)
(* ---------------------------------------------------------------------- *)
\* AgentManager.__init__: self.agents
Registry ==
  [n \in {MathAgentName, HighSchoolAgentName, MusicAgentName, TravelAgentName,
          GamesAgentName, LLMAgentName, APSTEMAgentName, SATACTAgentName,
          CollegeAdmissionAgentName} |->
     CASE n = MathAgentName             -> "MathAgent"
       [] n = HighSchoolAgentName       -> "HighSchoolAgent"
       [] n = MusicAgentName            -> "MusicAgent"
       [] n = TravelAgentName           -> "TravelAgent"
       [] n = GamesAgentName            -> "GamesAgent"
       [] n = LLMAgentName              -> "LLMAgent"
       [] n = APSTEMAgentName           -> "APSTEMAgent"
       [] n = SATACTAgentName           -> "SATACTAgent"
       [] n = CollegeAdmissionAgentName -> "CollegeAdmissionAgent"]

\* the keyword parameters of each class's handle(self, query, ...)
HandleParams ==
  [c \in {"MathAgent", "HighSchoolAgent", "MusicAgent", "TravelAgent", "GamesAgent",
          "LLMAgent", "APSTEMAgent", "SATACTAgent", "CollegeAdmissionAgent"} |->
     CASE c \in {"MathAgent", "LLMAgent", "APSTEMAgent"} -> {"fallback_pref", "api_key", "use_web"}
       [] c = "SATACTAgent" -> {"api_key"}
       [] OTHER -> {}]

\* the shapes of reply each class's handle returns
ReplyShapes ==
  [c \in DOMAIN HandleParams |->
     CASE c \in {"HighSchoolAgent", "TravelAgent", "GamesAgent"} -> {"str"}
       [] c = "MusicAgent" -> {"str", "dict_text"}
       [] c \in {"MathAgent", "APSTEMAgent"} -> {"str", "dict_text", "dict_fallback"}
       [] c = "LLMAgent" -> {"str_llm", "dict_fallback"}
       [] c = "SATACTAgent" -> {"dict_text", "dict_notext"}
       [] c = "CollegeAdmissionAgent" -> {"dict_text"}]

\* the keyword arguments of the three calls handle tries, in order
LadderKwargs ==
  << {"fallback_pref", "api_key", "use_web"}, {"fallback_pref", "api_key"}, {} >>

\* Python binds the call: every keyword passed must be a parameter
Accepts(cls, kwargs) == kwargs \subseteq HandleParams[cls]

(* ---------------------------------------------------------------------- *)
(* Bounded inputs                                                          *)
(* ---------------------------------------------------------------------- *)
\* spaces padded on each side of a sample text
MaxPad == 1
\* sample text lengths lie within Slack of the length threshold
Slack == 1

\* len(resp_text_norm) < 30
ShortLen == 30

Fill(n) == [i \in 1..n |-> "x"]
Pad(k) == [i \in 1..k |-> " "]

LenSamples == {0} \cup ((ShortLen - Slack)..(ShortLen + Slack - 1))

PlainTexts == {Pad(k) \o Fill(n) \o Pad(k) : n \in LenSamples, k \in 0..MaxPad}

\* long enough, with a hedge phrase in mixed case
HedgeTexts ==
  {Fill(ShortLen) \o <<" ">> \o h :
     h \in { <<"I"," ","d","o","n","'","t">>, <<"N","O","T"," ","S","U","R","E">> }}

\* long enough, and no hedge phrase although words of one occur
NearMissText == Fill(ShortLen) \o <<" ","d","o"," "," ","n","o","t">>

StrTexts == PlainTexts \cup HedgeTexts \cup {NearMissText}

DictTexts ==
  {<<>>, Fill(ShortLen - 1), Fill(ShortLen), Fill(ShortLen) \o <<" ","U","n","a","b","l","e">>}

\* resp of ask_llm that makes LLMAgent answer locally
LLMFailed == <<"L","L","M"," ","r","e","q","u","e","s","t"," ","f","a","i","l","e","d">>

\* the replies of one shape
RepliesOf(shape) ==
  CASE shape = "str"           -> {Str(t) : t \in StrTexts}
    [] shape = "dict_text"     -> {Dict(t, TRUE, FALSE, <<>>, "") : t \in DictTexts}
    [] shape = "dict_notext"   -> {Dict(<<>>, FALSE, FALSE, <<>>, "question")}
    [] shape = "dict_fallback" -> {Dict(Fill(ShortLen), TRUE, TRUE, LLMFailed, "fallback_agent")}
    [] shape = "str_llm"       -> {Str(<<>>), Str(Fill(ShortLen))}

Boom == <<"b","o","o","m">>
BadOperand == <<"b","a","d"," ","o","p","e","r","a","n","d"," ","t","y","p","e">>

\* what each class's handle returns when query.strip() is empty: a fixed prompt
\* (math_agent.py 509, highschool_agent.py 18, music_agent.py 35,
\* travel_agent.py 19, games_agent.py 12, llm_agent.py 14, ap_stem_agent.py 114,
\* sat_act_agent.py 108, college_admission_agent.py 92)
EmptyQueryReply ==
  [c \in DOMAIN HandleParams |->
     CASE c = "MathAgent" ->
         Str(<<"P","l","e","a","s","e"," ","p","r","o","v","i","d","e"," ","a"," ","m","a","t","h",
            " ","e","x","p","r","e","s","s","i","o","n"," ","o","r"," ","a"," ","s","i","m","p",
            "l","e"," ","e","q","u","a","t","i","o","n"," ","(","e",".","g","."," ","'","2","+",
            "2","'"," ","o","r"," ","'","2","*","x","+","3","=","7","'",")",".">>)
       [] c = "HighSchoolAgent" ->
         Str(<<"A","s","k"," ","m","e"," ","a"," ","q","u","e","s","t","i","o","n"," ","r","e","l",
            "a","t","e","d"," ","t","o"," ","h","i","g","h","-","s","c","h","o","o","l"," ","t",
            "o","p","i","c","s"," ","(","m","a","t","h",","," ","p","h","y","s","i","c","s",",",
            " ","c","h","e","m","i","s","t","r","y",","," ","b","i","o","l","o","g","y",","," ",
            "e","t","c",".",")",".">>)
       [] c = "MusicAgent" ->
         Str(<<"A","s","k"," ","f","o","r"," ","a","n"," ","a","r","t","i","s","t",","," ","s","o",
            "n","g"," ","n","a","m","e",","," ","o","r"," ","p","r","o","v","i","d","e"," ","a",
            " ","d","i","r","e","c","t"," ","a","u","d","i","o","/","v","i","d","e","o"," ","U",
            "R","L"," ","t","o"," ","p","l","a","y",".">>)
       [] c = "TravelAgent" ->
         Str(<<"A","s","k"," ","m","e"," ","t","r","a","v","e","l"," ","q","u","e","s","t","i","o",
            "n","s",":"," ","p","a","c","k","i","n","g",","," ","v","i","s","a","s",","," ","s",
            "a","f","e","t","y",","," ","o","r"," ","b","a","s","i","c"," ","t","r","i","p"," ",
            "p","l","a","n","n","i","n","g"," ","t","i","p","s",".">>)
       [] c = "GamesAgent" ->
         Str(<<"A","s","k"," ","f","o","r"," ","g","a","m","e"," ","s","u","g","g","e","s","t","i",
            "o","n","s",","," ","r","u","l","e","s",","," ","o","r"," ","a"," ","s","h","o","r",
            "t"," ","p","u","z","z","l","e"," ","(","e",".","g",".",","," ","'","s","u","g","g",
            "e","s","t"," ","a"," ","p","a","r","t","y"," ","g","a","m","e","'"," ","o","r"," ",
            "'","g","i","v","e"," ","m","e"," ","a"," ","b","r","a","i","n","t","e","a","s","e",
            "r","'",")",".">>)
       [] c = "LLMAgent" ->
         Str(<<"A","s","k"," ","m","e"," ","a","n","y","t","h","i","n","g"," ","U+2014"," ","t",
            "h","i","s"," ","a","g","e","n","t"," ","w","i","l","l"," ","f","o","r","w","a","r",
            "d"," ","y","o","u","r"," ","q","u","e","s","t","i","o","n"," ","t","o"," ","t","h",
            "e"," ","c","o","n","f","i","g","u","r","e","d"," ","L","L","M"," ","b","a","c","k",
            "e","n","d",".">>)
       [] c = "APSTEMAgent" ->
         Str(<<"A","s","k"," ","a","n"," ","A","P"," ","S","T","E","M"," ","q","u","e","s","t","i",
            "o","n"," ","(","C","a","l","c","u","l","u","s",","," ","P","h","y","s","i","c","s",
            ","," ","C","h","e","m","i","s","t","r","y",","," ","B","i","o","l","o","g","y",",",
            " ","S","t","a","t","i","s","t","i","c","s",","," ","C","o","m","p","u","t","e","r",
            " ","S","c","i","e","n","c","e",","," ","E","n","v","i","r","o","n","m","e","n","t",
            "a","l",")","."," ","G","i","v","e"," ","d","e","t","a","i","l","s"," ","f","o","r",
            " ","n","u","m","e","r","i","c","a","l"," ","h","e","l","p",","," ","o","r"," ","a",
            "s","k"," ","c","o","n","c","e","p","t","u","a","l"," ","q","u","e","s","t","i","o",
            "n","s"," ","f","o","r"," ","q","u","i","c","k"," ","t","i","p","s",".">>)
       [] c = "SATACTAgent" ->
         Dict(<<"A","s","k"," ","f","o","r"," ","a"," ","p","r","a","c","t","i","c","e"," ","q","u",
            "e","s","t","i","o","n"," ","w","i","t","h"," ","'","p","r","a","c","t","i","c","e",
            " ","m","a","t","h","'"," ","o","r"," ","p","a","s","t","e"," ","a","n"," ","M","C",
            "Q"," ","t","o"," ","c","h","e","c","k",".">>,
              TRUE, FALSE, <<>>, "")
       [] c = "CollegeAdmissionAgent" ->
         Dict(<<"A","s","k"," ","f","o","r"," ","'","e","s","s","a","y"," ","t","i","p","s","'",",",
            " ","'","r","a","n","k"," ","e","x","t","r","a","c","u","r","r","i","c","u","l","a",
            "r","s","'"," ","w","i","t","h"," ","a"," ","J","S","O","N"," ","l","i","s","t",",",
            " ","o","r"," ","'","s","a","m","p","l","e"," ","m","e","s","s","a","g","e","s","'",
            ".">>,
              TRUE, FALSE, <<>>, "")]

BodyOutcomes_empty_reply(cls, query) ==
  IF Strip(query) = <<>>
  THEN {Return(Str(<<>>))}
  ELSE {Return(r) : r \in UNION {RepliesOf(sh) : sh \in ReplyShapes[cls]}}
         \cup {Raise("TypeError", BadOperand), Raise("RuntimeError", Boom)}

\* what one execution of a handle body can do: on a query that is empty or
\* blank, return the prompt; else return a reply of one of the class's shapes,
\* or raise
BodyOutcomes(cls, query) ==
  IF Strip(query) = <<>>
  THEN {Return(EmptyQueryReply[cls])}
  ELSE {Return(r) : r \in UNION {RepliesOf(sh) : sh \in ReplyShapes[cls]}}
         \cup {Raise("TypeError", BadOperand), Raise("RuntimeError", Boom)}

AutoWord == <<"a","u","t","o">>
Nobody == <<"N","o","b","o","d","y">>

\* the key of the AP STEM identity in the trigger table
APSTEMIdentity == <<"A","P"," ","S","T","E","M">>

AgentNameInputs ==
  {NoneVal, <<>>, <<"A","u","t","o">>, Nobody, APSTEMIdentity} \cup DOMAIN Registry

Queries ==
  { <<>>,
    <<"2","+","3">>,
    <<"d","e","r","i","v","a","t","i","v","e"," ","o","f"," ","x","^","2">>,
    <<"a","s","d","k","j","f","h"," ","r","a","n","d","o","m"," ","t","e","x","t">>,
    <<"s","o","l","v","e"," ","e","q","u","a","t","i","o","n"," ","2","x","=","4">> }

FallbackPrefInputs == {NoneVal, <<"a","p","_","s","t","e","m">>}

ApiKeyInputs == {NoneVal, <<>>, <<"s","k","-","1">>}

\* agent_fallbacks: None (given = FALSE) or a dict with the keys `keys`, of which
\* `falsy` map to a falsy value
NoFallbackMap == [given |-> FALSE, keys |-> {}, falsy |-> {}]

AgentFallbackInputs ==
  { NoFallbackMap,
    [given |-> TRUE, keys |-> {LLMAgentName, MathAgentName, MusicAgentName, SATACTAgentName},
     falsy |-> {LLMAgentName, MathAgentName, SATACTAgentName}] }


(* ---------------------------------------------------------------------- *)
(* State                                                                   *)
(* ---------------------------------------------------------------------- *)
VARIABLES
  agents,          \* AgentManager.agents: responder name -> responder
  intent_router,   \* AgentManager.intent_router: the router, as the decision its
                   \* detect_intent makes on each query (IntentRouter keeps no state)
  pc,              \* "idle": no dispatch pending; "returned": handle has returned
  last,            \* the dispatch that returned: its arguments, calls and value
  routed,          \* the last call made on IntentRouter directly: its arguments,
                   \* the values it computed on the way and its result
  memo,            \* the lru_cache of _compute_math_cached and the last call of
                   \* MathAgent.handle that went through it
  web,             \* LLMAgent.handle with search_web_multi: the call under way, the
                   \* provider pool, _search_cache and the process environment
  request,         \* the call under way through the wrapper of _retry_request: its
                   \* keyword arguments, loop variables, the waits and its outcome
  nest             \* the handle calls under way, outermost first, when a responder's
                   \* body calls another responder, and the classes invoked so far

\* the state of AgentManager and of the calls on it
core == <<agents, intent_router, pc, last, routed>>

\* the state the responders' helpers keep
collaborators == <<memo, web, request, nest>>

vars == <<core, collaborators>>

(* ---------------------------------------------------------------------- *)
(* AgentManager.handle                                                     *)
(* ---------------------------------------------------------------------- *)
\* mutant: the lookup registers a name it does not find, as a defaultdict does
get_registers(d, key) ==
  IF key \in DOMAIN d THEN d ELSE [n \in DOMAIN d \cup {key} |-> IF n = key THEN NoneVal ELSE d[n]]

\* the dict after d.get(key): dict.get stores nothing, found or not
get(d, key) == d

\* one call agent.handle(query, **kwargs) with its outcome; role tells the call
\* to the chosen responder ("chosen") from the escalation call ("escalation"),
\* ran whether the call was bound and the body executed; an argument that is
\* not passed is shown as the parameter's default
Call(role, agent, query, kwargs, fallback_pref, api_key, use_web, out) ==
  [role |-> role, agent |-> agent, query |-> query, kwargs |-> kwargs,
   fallback_pref |-> IF "fallback_pref" \in kwargs THEN fallback_pref ELSE NoneVal,
   api_key |-> IF "api_key" \in kwargs THEN api_key ELSE NoneVal,
   use_web |-> IF "use_web" \in kwargs THEN use_web ELSE FALSE,
   ran |-> Accepts(agents[agent], kwargs),
   out |-> out]

\* the outcome of the k-th call of the ladder: the TypeError of a rejected
\* keyword, else whatever the body does
attempt(cls, k, body) ==
  IF Accepts(cls, LadderKwargs[k]) THEN body[k] ELSE Raise("TypeError", UnexpectedKw)

\* the try/except TypeError ladder: the calls made, in order
invoke(agent, query, fallback_pref, api_key, use_web, body) ==
  LET cls == agents[agent]
      c(k) == Call("chosen", agent, query, LadderKwargs[k], fallback_pref, api_key, use_web,
                   attempt(cls, k, body))
  IN  IF ~IsTypeError(attempt(cls, 1, body)) THEN <<c(1)>>
      ELSE IF ~IsTypeError(attempt(cls, 2, body)) THEN <<c(1), c(2)>>
      ELSE <<c(1), c(2), c(3)>>

\* mutant: a responder the override map does not name is not escalated
fallback_allowed_default_off(agent_fallbacks, agent_name) ==
  IF ~agent_fallbacks.given THEN TRUE
  ELSE IF agent_name \in agent_fallbacks.keys
       THEN agent_name \notin agent_fallbacks.falsy
       ELSE FALSE

\* agent_fallbacks.get(agent_name, True), True when agent_fallbacks is None
fallback_allowed(agent_fallbacks, agent_name) ==
  IF ~agent_fallbacks.given THEN TRUE
  ELSE IF agent_name \in agent_fallbacks.keys
       THEN agent_name \notin agent_fallbacks.falsy
       ELSE TRUE

\* the hedge phrases of the heuristic
insufficient_phrases ==
  << <<"i"," ","d","o","n","'","t">>, <<"d","o","n","t">>, <<"d","o"," ","n","o","t">>,
     <<"c","o","u","l","d"," ","n","o","t">>, <<"c","o","u","l","d","n","'","t">>,
     <<"u","n","a","b","l","e">>, <<"i"," ","c","o","u","l","d","n","'","t">>,
     <<"i"," ","d","o","n","'","t"," ","s","e","e">>,
     <<"s","y","m","p","y"," ","n","o","t"," ","a","v","a","i","l","a","b","l","e">>,
     <<"p","l","e","a","s","e"," ","p","r","o","v","i","d","e">>,
     <<"t","r","y"," ","a"," ","s","i","m","p","l","e","r">>,
     <<"i"," ","d","o","n","'","t"," ","s","e","e"," ","a"," ","d","i","r","e","c","t">>,
     <<"i","'","m"," ","n","o","t">>, <<"i"," ","a","m"," ","n","o","t">>,
     <<"n","o"," ","d","i","r","e","c","t">>, <<"n","o"," ","v","a","r","i","a","b","l","e","s">>,
     <<"u","n","k","n","o","w","n">>, <<"n","o","t"," ","s","u","r","e">>,
     <<"i"," ","d","o","n","'","t"," ","k","n","o","w">>, <<"u","n","a","b","l","e"," ","t","o">> >>

\* mutant: a structured reply without text is read by its other content
resp_text_any_content(resp) ==
  IF resp.kind = "dict"
  THEN IF resp.has_text /\ Truthy(resp.text) THEN resp.text
       ELSE IF resp.extra # "" THEN Fill(ShortLen) ELSE <<>>
  ELSE IF resp.kind = "str" THEN resp.text ELSE <<>>

\* the text the heuristic looks at
resp_text(resp) ==
  IF resp.kind = "dict"
  THEN IF resp.has_text /\ Truthy(resp.text) THEN resp.text ELSE <<>>
  ELSE IF resp.kind = "str" THEN resp.text ELSE <<>>

\* mutant: the hedge phrases are looked up in the text as written, not lower-cased
insufficient_case_sensitive(resp) ==
  LET resp_text_norm == Strip(resp_text(resp))
      short_answer == resp_text_norm = <<>> \/ Len(resp_text_norm) < ShortLen
      fallbackish == \E k \in 1..Len(insufficient_phrases) :
                       Contains(insufficient_phrases[k], resp_text_norm)
      structured_fallback ==
        resp.kind = "dict" /\ (resp.fallback \/ Truthy(resp.fallback_reason))
  IN  fallbackish \/ short_answer \/ structured_fallback

\* fallbackish or short_answer or structured_fallback
insufficient(resp) ==
  LET resp_text_norm == Strip(resp_text(resp))
      lowered == Lower(resp_text_norm)
      short_answer == resp_text_norm = <<>> \/ Len(resp_text_norm) < ShortLen
      fallbackish == \E k \in 1..Len(insufficient_phrases) :
                       Contains(insufficient_phrases[k], lowered)
      structured_fallback ==
        resp.kind = "dict" /\ (resp.fallback \/ Truthy(resp.fallback_reason))
  IN  fallbackish \/ short_answer \/ structured_fallback

\* mutant: escalation does not ask for credentials
escalation_eligible_no_key(agent_name, api_key, agent_fallbacks) ==
  /\ agent_name # LLMAgentName
  /\ fallback_allowed(agent_fallbacks, agent_name)

\* the guard of the escalation block
escalation_eligible(agent_name, api_key, agent_fallbacks) ==
  /\ agent_name # LLMAgentName
  /\ Truthy(api_key)
  /\ fallback_allowed(agent_fallbacks, agent_name)

\* llm_resp annotated with the originating responder
annotate(llm_resp, agent_name) ==
  IF llm_resp.kind = "dict"
  THEN IF llm_resp.fallback_from = <<>>
       THEN [llm_resp EXCEPT !.fallback_from = agent_name]
       ELSE llm_resp
  ELSE [Dict(llm_resp.text, TRUE, FALSE, <<>>, "") EXCEPT !.fallback_from = agent_name]

\* mutant: "auto" is compared without lower()
auto_requested_case_sensitive(agent_name) == ~Truthy(agent_name) \/ agent_name = AutoWord

\* not agent_name or agent_name.lower() == "auto"
auto_requested(agent_name) == ~Truthy(agent_name) \/ Lower(agent_name) = AutoWord

\* mutant: a name that is not registered is served by the LLM Agent
resolve_unknown_to_llm(agent_name, query) ==
  IF auto_requested(agent_name)
  THEN LET detected == intent_router[query]
       IN  IF detected.confidence = "low" /\ detected.name # LLMAgentName
           THEN LLMAgentName
           ELSE detected.name
  ELSE IF agent_name \in DOMAIN Registry THEN agent_name ELSE LLMAgentName

\* the name handle looks up: the explicit one, or the router's choice
resolve(agent_name, query) ==
  IF auto_requested(agent_name)
  THEN LET detected == intent_router[query]
       IN  IF detected.confidence = "low" /\ detected.name # LLMAgentName
           THEN LLMAgentName
           ELSE detected.name
  ELSE agent_name

\* the intent of a dispatch that names its responder: none is detected
NoIntent == [name |-> <<>>, confidence |-> "none"]

\* f"Unknown agent: {agent_name}"
UnknownAgentPrefix == <<"U","n","k","n","o","w","n"," ","a","g","e","n","t",":"," ">>

\* f"Agent error: {e}"
AgentErrorPrefix == <<"A","g","e","n","t"," ","e","r","r","o","r",":"," ">>

\* mutant: the escalation passes the caller's web flag on
escalation_call_caller_flag(query, fallback_pref, api_key, use_web, llm_out) ==
  Call("escalation", LLMAgentName, query, LadderKwargs[1], fallback_pref, api_key, use_web,
       llm_out)

\* llm.handle(query, fallback_pref=fallback_pref, api_key=api_key, use_web=True)
escalation_call(query, fallback_pref, api_key, use_web, llm_out) ==
  Call("escalation", LLMAgentName, query, LadderKwargs[1], fallback_pref, api_key, TRUE, llm_out)

\* mutant: a failed escalation is reported as an agent error
escalate_error(agent_name, resp, llm_out) ==
  IF llm_out.kind = "raise"
  THEN IF IsInstance(llm_out.type, "Exception")
       THEN Return(Str(AgentErrorPrefix \o llm_out.msg))
       ELSE llm_out
  ELSE Return(annotate(llm_out.reply, agent_name))

\* what handle returns once the escalation call is over
escalate(agent_name, resp, llm_out) ==
  IF llm_out.kind = "raise"
  THEN \* except Exception: return resp
       IF IsInstance(llm_out.type, "Exception") THEN Return(resp) ELSE llm_out
  ELSE Return(annotate(llm_out.reply, agent_name))

\* AgentManager.handle: the calls it makes and what it hands to the caller
\* (out.kind = "return": the value; "raise": an exception that leaves handle).
\* body[k] is what the chosen responder's body does if the k-th call runs it,
\* llm_out what the LLM Agent does if the escalation calls it.
handle(agent_name, query, fallback_pref, api_key, auto_route, use_web, agent_fallbacks, body, llm_out) ==
  LET \* the argument auto_route is overwritten with True and never read
      auto == auto_requested(agent_name)
      name == resolve(agent_name, query)
      base == [agent_name |-> agent_name, query |-> query, fallback_pref |-> fallback_pref,
               api_key |-> api_key, auto_route |-> auto_route, use_web |-> use_web,
               agent_fallbacks |-> agent_fallbacks,
               intent |-> IF auto THEN intent_router[query] ELSE NoIntent,
               resolved |-> name, calls |-> <<>>, out |-> NotRun]
  IN  IF name \notin DOMAIN agents
      THEN [base EXCEPT !.out = Return(Str(UnknownAgentPrefix \o name))]
      ELSE
        LET calls == invoke(name, query, fallback_pref, api_key, use_web, body)
            final == calls[Len(calls)].out
            resp == final.reply
        IN  IF final.kind = "raise"
            THEN \* except Exception as e: return f"Agent error: {e}"
                 IF IsInstance(final.type, "Exception")
                 THEN [base EXCEPT !.calls = calls,
                                   !.out = Return(Str(AgentErrorPrefix \o final.msg))]
                 ELSE [base EXCEPT !.calls = calls, !.out = final]
            ELSE IF /\ escalation_eligible(name, api_key, agent_fallbacks)
                    /\ insufficient(resp)
                    /\ LLMAgentName \in DOMAIN agents
                 THEN [base EXCEPT
                         !.calls = Append(calls, escalation_call(query, fallback_pref, api_key,
                                                                 use_web, llm_out)),
                         !.out = escalate(name, resp, llm_out)]
                 ELSE [base EXCEPT !.calls = calls, !.out = Return(resp)]

(* ---------------------------------------------------------------------- *)
(* Specification                                                          *)
(* ---------------------------------------------------------------------- *)
NoDispatch ==
  [agent_name |-> NoneVal, query |-> <<>>, fallback_pref |-> NoneVal, api_key |-> NoneVal,
   auto_route |-> FALSE, use_web |-> FALSE, agent_fallbacks |-> NoFallbackMap,
   intent |-> NoIntent,
   resolved |-> <<>>, calls |-> <<>>, out |-> NotRun]

\* no call was made on the router directly
NoCall == [op |-> "none"]

\* the cache of _compute_math_cached at import, in a process where the import
\* of sympy succeeded (has_sympy) or failed, and no call of MathAgent.handle yet;
\* fresh and repeats count the calls that brought a new number and the others,
\* evicted is the key dropped last, dropped_before tells that the last call
\* asked for it
EmptyMemo(has_sympy) ==
  [has_sympy |-> has_sympy, cache |-> <<>>, fresh |-> 0, repeats |-> 0,
   evicted |-> NoneVal, query |-> NoneVal, hit |-> FALSE, dropped_before |-> FALSE,
   reply |-> NoReply]

\* no call is under way through the retry wrapper
IdleRequest == [pc |-> "idle"]

\* no responder is running
IdleNest == [stack |-> <<>>, invoked |-> <<>>]

\* the helpers of the responders have not been used
CollaboratorsIdle ==
  /\ memo = EmptyMemo(TRUE)
  /\ web = [pc |-> "idle"]
  /\ request = IdleRequest
  /\ nest = IdleNest

Init ==
  /\ agents = Registry
  /\ intent_router = [q \in Queries |-> detect_intent(q)]
  /\ pc = "idle"
  /\ last = NoDispatch
  /\ routed = NoCall
  /\ CollaboratorsIdle

\* the body outcomes to choose from for the k-th call, given the earlier ones
BodyChoices(name, k, body, query) ==
  IF /\ name \in DOMAIN agents
     /\ Accepts(agents[name], LadderKwargs[k])
     /\ \A j \in 1..(k - 1) : IsTypeError(attempt(agents[name], j, body))
  THEN BodyOutcomes(agents[name], query)
  ELSE {NotRun}

\* the outcomes of the escalation call to choose from
LLMChoices(name, query, api_key, agent_fallbacks, body) ==
  LET final == IF IsTypeError(attempt(agents[name], 1, body))
               THEN IF IsTypeError(attempt(agents[name], 2, body))
                    THEN attempt(agents[name], 3, body)
                    ELSE attempt(agents[name], 2, body)
               ELSE attempt(agents[name], 1, body)
  IN  IF /\ final.kind = "return"
         /\ escalation_eligible(name, api_key, agent_fallbacks)
         /\ insufficient(final.reply)
      THEN BodyOutcomes("LLMAgent", query)
      ELSE {NotRun}

\* a caller dispatches a query and handle runs to completion
Dispatch ==
  /\ pc = "idle"
  /\ routed = NoCall
  /\ nest = IdleNest
  /\ \E agent_name \in AgentNameInputs, query \in Queries,
        fallback_pref \in FallbackPrefInputs, api_key \in ApiKeyInputs,
        auto_route \in BOOLEAN, use_web \in BOOLEAN,
        agent_fallbacks \in AgentFallbackInputs :
       LET name == resolve(agent_name, query)
       IN  \E b1 \in BodyChoices(name, 1, <<NotRun, NotRun, NotRun>>, query) :
           \E b2 \in BodyChoices(name, 2, <<b1, NotRun, NotRun>>, query) :
           \E b3 \in BodyChoices(name, 3, <<b1, b2, NotRun>>, query) :
           \E llm_out \in IF name \in DOMAIN agents
                          THEN LLMChoices(name, query, api_key, agent_fallbacks,
                                          <<b1, b2, b3>>)
                          ELSE {NotRun} :
             last' = handle(agent_name, query, fallback_pref, api_key, auto_route,
                            use_web, agent_fallbacks, <<b1, b2, b3>>, llm_out)
  /\ pc' = "returned"
  /\ agents' = get(agents, last'.resolved)
  /\ UNCHANGED <<intent_router, routed, collaborators>>

\* the caller takes the reply (the UI appends it to the history)
TakeReply ==
  /\ pc = "returned"
  /\ pc' = "idle"
  /\ last' = NoDispatch
  /\ UNCHANGED <<agents, intent_router, routed, collaborators>>

Next == Dispatch \/ TakeReply

Spec == Init /\ [][Next]_vars

(* ---------------------------------------------------------------------- *)
(* IntentRouter called directly: detect_intent, suggest_agents and the    *)
(* bucketing both of them apply                                           *)
(* ---------------------------------------------------------------------- *)
\* the words queries are made of
RouterWords ==
  << <<"a","d","d">>,
     <<"g","e","o","m","e","t","r","y">>,
     <<"2","x">>,
     <<"2","+","3">>,
     <<"2","U+03B1">>,
     <<"d","e","r","i","v","a","t","i","v","e">>,
     <<"s","o","n","g">>,
     <<"p","i","a","n","o">>,
     <<"c","h","e","s","s">>,
     <<"f","l","i","g","h","t">>,
     <<"p","h","y","s","i","c","s">>,
     <<"a","s","d","k","j","f","h">>,
     <<"f","o","r","c","e">> >>

\* the queries of at most this many words
MaxWords == 2

\* the words w[1] .. w[n] joined by single spaces
RECURSIVE Join(_)
Join(w) ==
  IF Len(w) = 0 THEN <<>>
  ELSE IF Len(w) = 1 THEN w[1]
  ELSE w[1] \o <<" ">> \o Join(Tail(w))

WordQueries ==
  UNION { {Join([i \in 1..n |-> RouterWords[f[i]]]) : f \in [1..n -> 1..Len(RouterWords)]} :
          n \in 0..MaxWords }

\* queries whose scores lie on the cuts of the buckets
CutQueries ==
  { \* Music scores 4.2, the low/medium cut of detect_intent (0.3 * 14)
    <<"s","o","n","g","s"," ","a","r","t","i","s","t","s"," ","a","l","b","u","m","s"," ",
      "b","a","n","d","s"," ","p","i","a","n","o"," ","g","u","i","t","a","r"," ","v","i",
      "o","l","i","n">>,
    \* Music scores 3.6, the low/medium cut of suggest_agents (0.3 * 12)
    <<"s","o","n","g","s"," ","a","r","t","i","s","t","s"," ","p","i","a","n","o"," ","g",
      "u","i","t","a","r"," ","v","i","o","l","i","n">>,
    \* Math scores 8.4, the medium/high cut of suggest_agents (0.7 * 12)
    <<"a","d","d"," ","a","d","d"," ","a","d","d"," ","s","u","b","t","r","a","c","t"," ",
      "m","u","l","t","i","p","l","y"," ","d","i","v","i","d","e"," ","2","+","3">>,
    \* Math scores 9.8, the medium/high cut of detect_intent (0.7 * 14)
    <<"a","d","d"," ","a","d","d"," ","a","d","d"," ","a","d","d"," ","a","d","d"," ","g",
      "e","o","m","e","t","r","y"," ","2","+","3">>,
    \* Math with both the math and the geometry boost
    <<"a","d","d"," ","s","u","b","t","r","a","c","t"," ","m","u","l","t","i","p","l","y",
      " ","d","i","v","i","d","e"," ","g","e","o","m","e","t","r","y"," ","2","+","3">>,
    \* an equation: digit followed by a letter
    <<"s","o","l","v","e"," ","e","q","u","a","t","i","o","n"," ","2","x","=","4">>,
    \* AP STEM wins with a low score
    <<"d","e","r","i","v","a","t","i","v","e"," ","o","f"," ","x","^","2">>,
    \* Math scores 0.7 * 6 + 0.3 + 2.0 = 6.499999999999999 and AP STEM
    \* 0.7 * 3 + 0.3 * 8 + 2.0 = 6.5: two scores with one quotient by 12.0
    <<"g","e","o","m","e","t","r","y"," ","g","e","o","m","e","t","r","y"," ","g","e",
      "o","m","e","t","r","y"," ","g","e","o","m","e","t","r","y"," ","g","e","o","m",
      "e","t","r","y"," ","g","e","o","m","e","t","r","y"," ","f","o","r","c","e"," ",
      "a","t","o","m"," ","d","n","a"," ","d","i","f","f"," ","d","/","d","x"," ","l",
      "i","m","i","t"," ","s","e","r","i","e","s"," ","c","e","l","l">> }

RouterQueries == WordQueries \cup CutQueries \cup Queries

TopNInputs == {0, DefaultTopN, Len(Identities) + 1}

\* scores up to this many tenths are bucketed
MaxTenths == 145

\* the floats nearest to a decimal value, and the floats just below them
ScoreSamples == {Float(t, 0) : t \in 0..MaxTenths} \cup {Float(t, -1) : t \in 1..MaxTenths}

RouterInit ==
  /\ agents = Registry
  /\ intent_router = [q \in Queries |-> detect_intent(q)]
  /\ pc = "idle"
  /\ last = NoDispatch
  /\ routed = NoCall
  /\ CollaboratorsIdle

\* IntentRouter.detect_intent(query)
DetectIntent ==
  /\ pc = "idle"
  /\ routed = NoCall
  /\ \E query \in RouterQueries :
       routed' = [op |-> "detect_intent", query |-> query, top_n |-> 0,
                  run |-> detect_intent_run(query)]
  /\ UNCHANGED <<agents, intent_router, pc, last, collaborators>>

\* IntentRouter.suggest_agents(query, top_n)
SuggestAgents ==
  /\ pc = "idle"
  /\ routed = NoCall
  /\ \E query \in RouterQueries, top_n \in TopNInputs :
       routed' = [op |-> "suggest_agents", query |-> query, top_n |-> top_n,
                  run |-> suggest_agents_run(query, top_n)]
  /\ UNCHANGED <<agents, intent_router, pc, last, collaborators>>

\* the bucketing of detect_intent (K = 14) and of suggest_agents' to_cat (K = 12),
\* applied to two scores a < b
Bucket ==
  /\ pc = "idle"
  /\ routed = NoCall
  /\ \E a \in ScoreSamples, b \in ScoreSamples, K \in {PrimaryNorm, SuggestNorm} :
       /\ a < b
       /\ routed' = [op |-> "bucket", K |-> K, a |-> a, b |-> b,
                     run |-> [a |-> category(a, K), b |-> category(b, K)]]
  /\ UNCHANGED <<agents, intent_router, pc, last, collaborators>>

\* the Intent Detection panel and the dispatch of one query: the panel shows
\* get_suggestions(query, top_n) and handle, asked to route, detect_intent(query)
SuggestAndDetect ==
  /\ pc = "idle"
  /\ routed = NoCall
  /\ \E query \in RouterQueries, top_n \in TopNInputs :
       routed' = [op |-> "suggest_and_detect", query |-> query, top_n |-> top_n,
                  run |-> [primary |-> detect_intent(query),
                           suggest |-> suggest_agents_run(query, top_n)]]
  /\ UNCHANGED <<agents, intent_router, pc, last, collaborators>>

\* the caller takes the result
TakeResult ==
  /\ routed # NoCall
  /\ routed' = NoCall
  /\ UNCHANGED <<agents, intent_router, pc, last, collaborators>>

RouterNext == DetectIntent \/ SuggestAgents \/ Bucket \/ SuggestAndDetect \/ TakeResult

RouterSpec == RouterInit /\ [][RouterNext]_vars

(* ---------------------------------------------------------------------- *)
(* MathAgent.handle on plain numbers: _compute_math_cached behind         *)
(* functools.lru_cache(maxsize=256)                                       *)
(* ---------------------------------------------------------------------- *)
\* lru_cache(maxsize=256)
maxsize == 256

DigitChars == <<"0","1","2","3","4","5","6","7","8","9">>

\* str(n) of an int n >= 0
RECURSIVE Decimal(_)
Decimal(n) ==
  IF n < 10 THEN <<DigitChars[n + 1]>>
  ELSE Decimal(n \div 10) \o <<DigitChars[(n % 10) + 1]>>

\* the int a text of decimal digits denotes (sympify and _safe_eval parse it)
RECURSIVE ParseDecimal(_)
ParseDecimal(s) ==
  IF s = <<>> THEN 0
  ELSE 10 * ParseDecimal(SubSeq(s, 1, Len(s) - 1))
         + (CHOOSE d \in 0..9 : DigitChars[d + 1] = s[Len(s)])

\* the body of _compute_math_cached on the text of a number: the value is parsed
\* and printed into f"Expression: {expr}\nSimplified: {simplified}" with sympy,
\* into f"Expression numeric result: {val} (install sympy ...)" without; the
\* reply is kept as the template and the number printed into it
compute_math(has_sympy, query) ==
  LET q == Strip(query)
  IN  IF q = <<>>
      THEN [form |-> "Please provide a math expression or a simple equation.", value |-> <<>>]
      ELSE [form |-> IF has_sympy THEN "Expression: {}\nSimplified: {}"
                     ELSE "Expression numeric result: {} (install sympy ...)",
            value |-> Decimal(ParseDecimal(q))]

\* the place of key in the cache, 0 when the cache does not hold it
position(cache, key) ==
  IF \E i \in 1..Len(cache) : cache[i].key = key
  THEN CHOOSE i \in 1..Len(cache) : cache[i].key = key
  ELSE 0

\* mutant: a hit returns what the call before it returned
cached_call_last_result(cache, has_sympy, key) ==
  LET i == position(cache, key)
  IN  IF i > 0
      THEN [hit |-> TRUE, result |-> cache[Len(cache)].result, evicted |-> NoneVal,
            cache |-> Append(SubSeq(cache, 1, i - 1) \o SubSeq(cache, i + 1, Len(cache)),
                             cache[i])]
      ELSE LET result == compute_math(has_sympy, key)
               full == Len(cache) >= maxsize
           IN  [hit |-> FALSE, result |-> result,
                evicted |-> IF full THEN cache[1].key ELSE NoneVal,
                cache |-> Append(IF full THEN Tail(cache) ELSE cache,
                                 [key |-> key, result |-> result])]

\* one call through the wrapper lru_cache puts around _compute_math_cached; the
\* cache is kept least recently used first. A hit returns the stored result and
\* makes the entry the most recent; a miss computes, stores, and when the cache
\* is full drops the least recently used entry
cached_call(cache, has_sympy, key) ==
  LET i == position(cache, key)
  IN  IF i > 0
      THEN [hit |-> TRUE, result |-> cache[i].result, evicted |-> NoneVal,
            cache |-> Append(SubSeq(cache, 1, i - 1) \o SubSeq(cache, i + 1, Len(cache)),
                             cache[i])]
      ELSE LET result == compute_math(has_sympy, key)
               full == Len(cache) >= maxsize
           IN  [hit |-> FALSE, result |-> result,
                evicted |-> IF full THEN cache[1].key ELSE NoneVal,
                cache |-> Append(IF full THEN Tail(cache) ELSE cache,
                                 [key |-> key, result |-> result])]

\* new numbers are asked until this many more than the cache holds were
MaxBeyond == 2
\* calls that bring no new number: a number asked before, or a blank query
MaxRepeats == 1
\* numbers are asked again while the cache holds at most this many entries, and
\* when it is full
FewEntries == 2

\* the queries the next call of MathAgent.handle may bring: the next number not
\* asked so far, or again the number least recently used, the one most recently
\* used or the one dropped last; or a blank query
MathQueries ==
  LET cache == memo.cache
      fresh == IF memo.fresh < maxsize + MaxBeyond THEN {Decimal(memo.fresh + 1)} ELSE {}
      again == IF /\ memo.repeats < MaxRepeats
                  /\ cache # <<>>
                  /\ (Len(cache) <= FewEntries \/ Len(cache) = maxsize)
               THEN {cache[1].key, cache[Len(cache)].key}
                      \cup (IF memo.evicted # NoneVal THEN {memo.evicted} ELSE {})
               ELSE {}
      blank == IF memo.repeats < MaxRepeats THEN {<<>>} ELSE {}
  IN  {Pad(k) \o t : k \in 0..MaxPad, t \in fresh \cup again \cup blank}

MemoInit ==
  /\ agents = Registry
  /\ intent_router = [q \in Queries |-> detect_intent(q)]
  /\ pc = "idle"
  /\ last = NoDispatch
  /\ routed = NoCall
  /\ \E has_sympy \in BOOLEAN : memo = EmptyMemo(has_sympy)
  /\ web = [pc |-> "idle"]
  /\ request = IdleRequest
  /\ nest = IdleNest

\* MathAgent.handle(query) on a blank query or the text of a number: the prompt,
\* or `return _compute_math_cached(q)`
MathHandle ==
  /\ \E query \in MathQueries :
       LET q == Strip(query)
           call == cached_call(memo.cache, memo.has_sympy, q)
           new == q # <<>> /\ ParseDecimal(q) > memo.fresh
       IN  IF q = <<>>
           THEN memo' = [memo EXCEPT !.query = query, !.hit = FALSE,
                                     !.dropped_before = FALSE,
                                     !.reply = EmptyQueryReply["MathAgent"],
                                     !.repeats = @ + 1]
           ELSE memo' = [memo EXCEPT !.query = query, !.hit = call.hit,
                                     !.dropped_before = (q = memo.evicted),
                                     !.reply = call.result, !.cache = call.cache,
                                     !.evicted = IF call.evicted # NoneVal
                                                 THEN call.evicted ELSE @,
                                     !.fresh = IF new THEN @ + 1 ELSE @,
                                     !.repeats = IF new THEN @ ELSE @ + 1]
  /\ UNCHANGED <<core, web, request, nest>>

MemoSpec == MemoInit /\ [][MathHandle]_vars

(* ---------------------------------------------------------------------- *)
(* LLMAgent.handle with web augmentation: search_web_multi, its provider  *)
(* pool and its TTL cache                                                 *)
(* ---------------------------------------------------------------------- *)
\* ThreadPoolExecutor(max_workers=4)
max_workers == 4

\* a value a provider or a search hands back: a str, a dict with the keys text,
\* provider and urls, a tuple (text, provider), or none at all (type "none");
\* type "raise" stands for a call that raised. provider is kept as the sequence
\* of the names that the code joins with "," and ":"
Res(type, text, provider) == [type |-> type, text |-> text, provider |-> provider]

NoRes == Res("none", <<>>, <<>>)

PerplexityNotAvailable ==
  <<"P","e","r","p","l","e","x","i","t","y"," ","n","o","t"," ","a","v","a","i","l","a","b",
    "l","e"," ","(","r","e","q","u","e","s","t","s"," ","n","o","t"," ","i","n","s","t","a",
    "l","l","e","d",")",".">>

BingNotAvailable ==
  <<"B","i","n","g"," ","s","e","a","r","c","h"," ","n","o","t"," ","a","v","a","i","l","a",
    "b","l","e"," ","(","r","e","q","u","e","s","t","s"," ","n","o","t"," ","i","n","s","t",
    "a","l","l","e","d",")",".">>

\* f"No results found for '{query}'" for the query of the model
NoResultsFound ==
  <<"N","o"," ","r","e","s","u","l","t","s"," ","f","o","u","n","d"," ","f","o","r"," ","'",
    "c","a","t","s","'">>

WebSearchError ==
  <<"W","e","b"," ","s","e","a","r","c","h"," ","e","r","r","o","r",":"," ","t","i","m","e",
    "d"," ","o","u","t">>

Forbidden403 ==
  <<"E","r","r","o","r",":"," ","4","0","3"," ","F","o","r","b","i","d","d","e","n">>

\* a page text a provider found
CatsPurr == <<"C","a","t","s"," ","p","u","r","r"," ","w","h","e","n"," ","c","o","n","t",
              "e","n","t",".">>

\* what a provider's function can hand to fut.result(), with requests installed
\* and without it: _search_serpapi -> str, _search_bing -> dict or str,
\* _search_perplexity_html -> dict (a str without requests), _search_duckduckgo
\* -> tuple; without requests the first and the last raise NameError
ProviderOutcomes(provider, has_requests) ==
  CASE provider = "serpapi" ->
         IF has_requests
         THEN {Res("str", CatsPurr, <<>>), Res("str", Forbidden403, <<>>)}
         ELSE {Res("raise", <<>>, <<>>)}
    [] provider = "bing" ->
         IF has_requests
         THEN {Res("dict", CatsPurr, <<"bing">>), Res("str", Forbidden403, <<>>)}
         ELSE {Res("str", BingNotAvailable, <<>>)}
    [] provider = "perplexity" ->
         IF has_requests
         THEN {Res("dict", CatsPurr, <<"perplexity">>), Res("dict", NoResultsFound, <<"perplexity">>)}
         ELSE {Res("str", PerplexityNotAvailable, <<>>)}
    [] provider = "duckduckgo" ->
         IF has_requests
         THEN {Res("tuple", CatsPurr, <<"duckduckgo-json">>),
               Res("tuple", NoResultsFound, <<"none">>), Res("tuple", WebSearchError, <<"none">>)}
         ELSE {Res("raise", <<>>, <<>>)}

\* the providers search_web_multi submits; environ is the set of the
\* environment variables that are set
Submitted(api_key, environ) ==
  {"perplexity", "duckduckgo"}
    \cup (IF Truthy(api_key) \/ "SERPAPI_KEY" \in environ THEN {"serpapi"} ELSE {})
    \cup (IF "BING_API_KEY" \in environ THEN {"bing"} ELSE {})

\* the body of the as_completed loop on one completed future: the snippet it
\* appends, NoRes when it appends none
snippet(provider, res) ==
  LET r == IF provider = "duckduckgo" /\ res.type = "tuple" THEN Res("str", res.text, <<>>) ELSE res
      low == IF r.type = "str" THEN Lower(r.text) ELSE <<>>
  IN  IF res.type = "raise" THEN NoRes
      ELSE IF r.type = "str" /\ r.text = <<>> THEN NoRes
      ELSE IF \/ Contains(<<"4","0","3">>, low)
              \/ Contains(<<"f","o","r","b","i","d","d","e","n">>, low)
              \/ MatchAt(<<"n","o"," ","r","e","s","u","l","t","s">>, low, 1)
              \/ MatchAt(Lower(SubSeq(WebSearchError, 1, 16)), low, 1)
      THEN NoRes
      ELSE r

\* _extractive_summarize(snippets, query, max_bullets=3) on the str snippets the
\* providers of the model hand back, as the function computes it
ExtractiveSummary ==
  [s \in { <<PerplexityNotAvailable>>, <<PerplexityNotAvailable, BingNotAvailable>>,
           <<BingNotAvailable, PerplexityNotAvailable>> } |->
     IF Len(s) = 1
     THEN <<"-"," ","P","e","r","p","l","e","x","i","t","y"," ","n","o","t"," ","a","v","a",
           "i","l","a","b","l","e"," ","(","r","e","q","u","e","s","t","s"," ","n","o","t",
           " ","i","n","s","t","a","l","l","e","d",")",".">>
     ELSE <<"-"," ","B","i","n","g"," ","s","e","a","r","c","h"," ","n","o","t"," ","a","v",
           "a","i","l","a","b","l","e"," ","(","r","e","q","u","e","s","t","s"," ","n","o",
           "t"," ","i","n","s","t","a","l","l","e","d",")",".","\n","-"," ","P","e","r","p",
           "l","e","x","i","t","y"," ","n","o","t"," ","a","v","a","i","l","a","b","l","e",
           " ","(","r","e","q","u","e","s","t","s"," ","n","o","t"," ","i","n","s","t","a",
           "l","l","e","d",")",".">>]

\* a text _refine_with_openai hands back
Polished == <<"-"," ","C","a","t","s"," ","p","u","r","r",".">>

\* search_web_multi once the pool has shut down (lines 299-328): the value it
\* returns (type "raise": the TypeError _extractive_summarize raises on a snippet
\* that is no str) and whether it stores the value in _search_cache. oa is what
\* _search_openai_fallback hands back, polished what _refine_with_openai does
multi_return(snippets, providers_tried, openai_key, oa, polished) ==
  LET oa_added == /\ snippets = <<>>
                  /\ oa.type = "str" /\ oa.text # <<>>
                  /\ ~MatchAt(<<"o","p","e","n","a","i"," ","f","a","l","l","b","a","c","k"," ",
                                "n","o","t"," ","a","v","a","i","l","a","b","l","e">>,
                              Lower(oa.text), 1)
      all == IF oa_added THEN <<oa>> ELSE snippets
      tried == IF oa_added THEN <<"openai-fallback">> ELSE providers_tried
      texts == [i \in 1..Len(all) |-> all[i].text]
  IN  IF all = <<>>
      THEN [value |-> Res("tuple", NoResultsFound, <<"none">>), cached |-> FALSE]
      ELSE IF \E i \in 1..Len(all) : all[i].type # "str"
      THEN [value |-> Res("raise", <<>>, <<>>), cached |-> FALSE]
      ELSE LET summary == ExtractiveSummary[texts]
           IN  [value |-> Res("tuple",
                              IF openai_key /\ summary # <<>> /\ polished # <<>>
                              THEN polished ELSE summary,
                              <<"multi">> \o tried),
                cached |-> TRUE]

\* the key of _search_cache
cache_key(query, api_key) == <<Lower(Strip(query)), Truthy(api_key)>>

\* the web context LLMAgent.handle makes of what search_web_multi handed back
\* (lines 29-40): the text of a dict, unless it is a 403 or a "no results" text
web_context(res) ==
  IF /\ res.type = "dict"
     /\ res.text # <<>>
     /\ ~Contains(<<"4","0","3">>, Lower(res.text))
     /\ ~MatchAt(<<"n","o"," ","r","e","s","u","l","t","s">>, Lower(res.text), 1)
  THEN res.text
  ELSE NoneVal

WebQueries == { <<>>, <<"c","a","t","s">>, <<" ","C","a","t","s">> }

\* no call of LLMAgent.handle is under way; has_requests: the import of requests
\* succeeded; cache: the entry of _search_cache that is younger than the TTL
IdleWeb(has_requests, environ, api_key, cache) ==
  [pc |-> "idle", has_requests |-> has_requests, environ |-> environ, api_key |-> api_key,
   cache |-> cache, query |-> NoneVal, use_web |-> FALSE, tasks |-> <<>>,
   snippets |-> <<>>, providers_tried |-> <<>>, res |-> NoRes,
   prompt |-> [question |-> <<>>, web_context |-> NoneVal], reply |-> NoReply]

WebInit ==
  /\ agents = Registry
  /\ intent_router = [q \in Queries |-> detect_intent(q)]
  /\ pc = "idle"
  /\ last = NoDispatch
  /\ routed = NoCall
  /\ memo = EmptyMemo(TRUE)
  /\ request = IdleRequest
  /\ nest = IdleNest
  /\ \E has_requests \in BOOLEAN, api_key \in {NoneVal, <<"s","k","-","1">>},
        environ \in SUBSET {"SERPAPI_KEY", "BING_API_KEY", "OPENAI_API_KEY"} :
       web = IdleWeb(has_requests, environ, api_key, [key |-> <<>>, val |-> NoRes])

\* LLMAgent.handle(query, api_key=api_key, use_web=use_web) up to the point where
\* search_web_multi has submitted its providers to the pool (lines 12-28 and
\* web_search_util.py 253-273); without use_web, and when the cache answers,
\* up to ask_llm
LLMHandle ==
  /\ web.pc = "idle"
  /\ \E query \in WebQueries, use_web \in BOOLEAN :
       LET q == Strip(query)
           key == cache_key(q, web.api_key)
           call == [web EXCEPT !.query = query, !.use_web = use_web]
       IN  IF q = <<>>
           THEN web' = [call EXCEPT !.pc = "returned", !.reply = EmptyQueryReply["LLMAgent"]]
           ELSE IF ~use_web
           THEN web' = [call EXCEPT !.pc = "asking"]
           ELSE IF web.cache.val # NoRes /\ web.cache.key = key
           THEN web' = [call EXCEPT !.pc = "asking", !.res = web.cache.val]
           ELSE web' = [call EXCEPT
                          !.pc = "searching",
                          !.tasks = [p \in Submitted(web.api_key, web.environ) |->
                                       [state |-> "running", out |-> NoRes]]]
  /\ UNCHANGED <<core, memo, request, nest>>

\* a provider's call completes in its worker and as_completed hands the future
\* to the loop, which keeps or drops what it brought (lines 275-297)
ProviderCompletes ==
  /\ web.pc = "searching"
  /\ Cardinality({p \in DOMAIN web.tasks : web.tasks[p].state = "running"}) <= max_workers
  /\ \E p \in DOMAIN web.tasks :
       /\ web.tasks[p].state = "running"
       /\ \E out \in ProviderOutcomes(p, web.has_requests) :
            LET r == snippet(p, out)
            IN  web' = [web EXCEPT
                          !.tasks[p] = [state |-> "done", out |-> out],
                          !.snippets = IF r = NoRes THEN @ ELSE Append(@, r),
                          !.providers_tried = IF r = NoRes THEN @ ELSE Append(@, p)]
  /\ UNCHANGED <<core, memo, request, nest>>

\* every future was handed over: the pool shuts down and search_web_multi
\* returns or raises (lines 299-328)
SearchReturns ==
  /\ web.pc = "searching"
  /\ \A p \in DOMAIN web.tasks : web.tasks[p].state = "done"
  /\ \E oa \in {Res("str", <<>>, <<>>), Res("dict", Polished, <<"openai-fallback">>)},
        polished \in {<<>>, Polished} :
       LET openai_key == Truthy(web.api_key) \/ "OPENAI_API_KEY" \in web.environ
           r == multi_return(web.snippets, web.providers_tried, openai_key, oa, polished)
       IN  /\ (web.snippets # <<>> => oa.type = "str")
           /\ (~(openai_key /\ r.cached) => polished = <<>>)
           /\ web' = [web EXCEPT
                        !.pc = "asking", !.res = r.value,
                        !.cache = IF r.cached
                                  THEN [key |-> cache_key(web.query, web.api_key),
                                        val |-> r.value]
                                  ELSE @]
  /\ UNCHANGED <<core, memo, request, nest>>

\* the rest of LLMAgent.handle: the prompt, ask_llm and the reply (lines 29-94)
LLMReturns ==
  /\ web.pc = "asking"
  /\ \E reply \in UNION {RepliesOf(sh) : sh \in ReplyShapes["LLMAgent"]} :
       web' = [web EXCEPT
                 !.pc = "returned",
                 !.prompt = [question |-> Strip(web.query), web_context |-> web_context(web.res)],
                 !.reply = reply]
  /\ UNCHANGED <<core, memo, request, nest>>

\* the caller takes the reply
TakeWebReply ==
  /\ web.pc = "returned"
  /\ web' = IdleWeb(web.has_requests, web.environ, web.api_key, web.cache)
  /\ UNCHANGED <<core, memo, request, nest>>

\* _SEARCH_CACHE_TTL seconds pass: the entry no longer answers a search
CacheExpires ==
  /\ web.pc = "idle"
  /\ web.cache.val # NoRes
  /\ web' = [web EXCEPT !.cache = [key |-> <<>>, val |-> NoRes]]
  /\ UNCHANGED <<core, memo, request, nest>>

WebNext ==
  \/ LLMHandle
  \/ ProviderCompletes
  \/ SearchReturns
  \/ LLMReturns
  \/ TakeWebReply
  \/ CacheExpires

WebSpec == WebInit /\ [][WebNext]_vars

(* ---------------------------------------------------------------------- *)
(* _retry_request: the wrapper around the outbound HTTP calls             *)
(* (_fetch_ddg_html and _fetch_perplex)                                    *)
(* ---------------------------------------------------------------------- *)
\* the largest retries= a call is made with; the two call sites pass none and
\* get the default
MaxRetries == 3

\* retries: int = 2
DefaultRetries == 2

\* backoff: float = 0.5, in milliseconds
DefaultBackoff == 500

\* the backoff= values a call is made with, in milliseconds
Backoffs == {0, DefaultBackoff, 2 * DefaultBackoff}

\* what one call of the wrapped function does: it returns the response, raises
\* a subclass of Exception (requests.post/get and raise_for_status raise
\* ConnectionError, Timeout and HTTPError) or raises an exception that is no
\* Exception, as Ctrl-C does; at is the attempt that met it, so that two
\* exceptions of two attempts are two objects
FuncOutcomes(at) ==
  {[kind |-> "return", value |-> "response", at |-> at]}
    \cup {[kind |-> "Exception", value |-> t, at |-> at] : t \in {"Timeout", "HTTPError"}}
    \cup {[kind |-> "BaseException", value |-> "KeyboardInterrupt", at |-> at]}

NoOutcome == [kind |-> "none", value |-> "none", at |-> 0 - 1]

\* mutant: the wait grows by one backoff per attempt
sleep_seconds_linear(backoff, n) == backoff * (n + 1)

\* the argument of time.sleep after attempt n: backoff * (2 ** attempt)
sleep_seconds(backoff, n) == backoff * (2 ^ n)

\* wrapper(*args, retries=..., backoff=...) is called: last_exc = None and the
\* loop starts at attempt 0 (retries >= 0, so the loop has an iteration)
RetryCall ==
  /\ request.pc = "idle"
  /\ \E retries \in 0..MaxRetries, backoff \in Backoffs :
       request' = [pc |-> "attempting", retries |-> retries, backoff |-> backoff,
                   attempt |-> 0, last_exc |-> NoOutcome, outcomes |-> <<>>,
                   sleeps |-> <<>>, out |-> NoOutcome]
  /\ UNCHANGED <<core, memo, web, nest>>

\* one iteration up to the sleep: func is called; its value is returned, an
\* exception that is no Exception passes through the except clause, an
\* Exception is kept in last_exc and, on the last iteration, re-raised
Attempt ==
  /\ request.pc = "attempting"
  /\ \E o \in FuncOutcomes(request.attempt) :
       LET made == [request EXCEPT !.outcomes = Append(@, o)]
       IN  request' =
             CASE o.kind = "return" -> [made EXCEPT !.pc = "returned", !.out = o]
               [] o.kind = "BaseException" -> [made EXCEPT !.pc = "raised", !.out = o]
               [] o.kind = "Exception" /\ request.attempt < request.retries ->
                    [made EXCEPT !.pc = "sleeping", !.last_exc = o]
               [] OTHER -> [made EXCEPT !.pc = "raised", !.last_exc = o, !.out = o]
  /\ UNCHANGED <<core, memo, web, nest>>

\* time.sleep(backoff * (2 ** attempt)) returns and `continue` starts the
\* next iteration
Sleep ==
  /\ request.pc = "sleeping"
  /\ request' = [request EXCEPT
                   !.pc = "attempting",
                   !.sleeps = Append(@, sleep_seconds(request.backoff, request.attempt)),
                   !.attempt = @ + 1]
  /\ UNCHANGED <<core, memo, web, nest>>

\* the caller has the response or the exception
TakeResponse ==
  /\ request.pc \in {"returned", "raised"}
  /\ request' = IdleRequest
  /\ UNCHANGED <<core, memo, web, nest>>

RetryNext ==
  \/ RetryCall
  \/ Attempt
  \/ Sleep
  \/ TakeResponse

RetrySpec == Init /\ [][RetryNext]_vars

(* ---------------------------------------------------------------------- *)
(* The calls responders make on one another: MathAgent, APSTEMAgent and   *)
(* _match_mcq construct an LLMAgent when they hold an api_key, LLMAgent's  *)
(* local fallback constructs an APSTEMAgent or a HighSchoolAgent           *)
(* ---------------------------------------------------------------------- *)
\* the frames handle calls may nest to before the model stops following them
MaxDepth == 4

\* a call cls().handle(...) under way; called tells that its body has made its
\* nested call
Frame(cls, api_key) == [cls |-> cls, api_key |-> api_key, called |-> FALSE]

\* mutant: the local fallback hands the caller's api_key on
NestedCalls_local_fallback_with_key(cls, api_key) ==
  CASE cls = "MathAgent" ->
         {Frame("APSTEMAgent", NoneVal)}
           \cup (IF Truthy(api_key) THEN {Frame("LLMAgent", api_key)} ELSE {})
    [] cls \in {"APSTEMAgent", "SATACTAgent"} ->
         IF Truthy(api_key) THEN {Frame("LLMAgent", api_key)} ELSE {}
    [] cls = "LLMAgent" ->
         {Frame("APSTEMAgent", api_key), Frame("HighSchoolAgent", api_key)}
    [] OTHER -> {}

\* the calls the body of cls.handle may make when it was given api_key:
\* MathAgent.handle returns APSTEMAgent().handle(q) on a derivative or an
\* integral and asks LLMAgent `if api_key`; APSTEMAgent.handle and
\* SATACTAgent.handle (through _match_mcq) ask LLMAgent `if api_key`;
\* LLMAgent.handle, when ask_llm failed, calls APSTEMAgent().handle(q) or
\* HighSchoolAgent().handle(q), with the query alone
NestedCalls(cls, api_key) ==
  CASE cls = "MathAgent" ->
         {Frame("APSTEMAgent", NoneVal)}
           \cup (IF Truthy(api_key) THEN {Frame("LLMAgent", api_key)} ELSE {})
    [] cls \in {"APSTEMAgent", "SATACTAgent"} ->
         IF Truthy(api_key) THEN {Frame("LLMAgent", api_key)} ELSE {}
    [] cls = "LLMAgent" ->
         {Frame("APSTEMAgent", NoneVal), Frame("HighSchoolAgent", NoneVal)}
    [] OTHER -> {}

\* AgentManager.handle invokes a responder of the registry: the ladder passes
\* api_key to the classes that accept its first call, and the query alone to
\* the others
Invoke ==
  /\ pc = "idle"
  /\ routed = NoCall
  /\ nest = IdleNest
  /\ \E name \in DOMAIN agents, api_key \in ApiKeyInputs :
       LET cls == agents[name]
           given == IF Accepts(cls, LadderKwargs[1]) THEN api_key ELSE NoneVal
       IN  nest' = [stack |-> <<Frame(cls, given)>>, invoked |-> <<cls>>]
  /\ UNCHANGED <<core, memo, web, request>>

\* the body of the innermost call makes its nested call
NestedCall ==
  /\ nest # IdleNest
  /\ Len(nest.stack) \in 1..(MaxDepth - 1)
  /\ LET top == nest.stack[Len(nest.stack)]
     IN  /\ ~top.called
         /\ \E f \in NestedCalls(top.cls, top.api_key) :
              nest' = [stack |-> Append([nest.stack EXCEPT ![Len(nest.stack)].called = TRUE], f),
                       invoked |-> Append(nest.invoked, f.cls)]
  /\ UNCHANGED <<core, memo, web, request>>

\* the innermost call returns to its caller
NestedReturn ==
  /\ nest # IdleNest
  /\ nest.stack # <<>>
  /\ nest' = [nest EXCEPT !.stack = SubSeq(@, 1, Len(@) - 1)]
  /\ UNCHANGED <<core, memo, web, request>>

\* the responder has returned to AgentManager.handle
TakeNested ==
  /\ nest # IdleNest
  /\ nest.stack = <<>>
  /\ nest' = IdleNest
  /\ UNCHANGED <<core, memo, web, request>>

NestNext ==
  \/ Invoke
  \/ NestedCall
  \/ NestedReturn
  \/ TakeNested

\* the dispatches, and the calls a responder invoked by one makes
NestSpec == Init /\ [][Next \/ NestNext]_vars

(* ---------------------------------------------------------------------- *)
(* Dispatches to a responder whose handle returns neither a str nor a dict *)
(* ---------------------------------------------------------------------- *)
\* a value that is neither a str nor a dict: None, a number
Other(type) ==
  [kind |-> type, text |-> <<>>, has_text |-> FALSE, fallback |-> FALSE,
   fallback_reason |-> <<>>, fallback_from |-> <<>>, extra |-> ""]

OtherReplies == {Other("NoneType"), Other("int")}

\* AgentManager.handle when the chosen responder's handle returns such a value
\* on a call it accepts
DispatchUntyped ==
  /\ pc = "idle"
  /\ routed = NoCall
  /\ nest = IdleNest
  /\ \E agent_name \in DOMAIN Registry \ {LLMAgentName}, query \in Queries \ {<<>>},
        fallback_pref \in FallbackPrefInputs, api_key \in ApiKeyInputs,
        use_web \in BOOLEAN, agent_fallbacks \in AgentFallbackInputs,
        r \in OtherReplies :
       LET body == <<Return(r), Return(r), Return(r)>>
       IN  \E llm_out \in LLMChoices(agent_name, query, api_key, agent_fallbacks, body) :
             last' = handle(agent_name, query, fallback_pref, api_key, FALSE, use_web,
                            agent_fallbacks, body, llm_out)
  /\ pc' = "returned"
  /\ agents' = get(agents, last'.resolved)
  /\ UNCHANGED <<intent_router, routed, collaborators>>

\* the dispatches, with replies of every type
ReplySpec == Init /\ [][Next \/ DispatchUntyped]_vars

(* ---------------------------------------------------------------------- *)
(* AgentManager as its callers use it: handle, detect_intent and          *)
(* get_suggestions in any order, one call at a time                       *)
(* ---------------------------------------------------------------------- *)
ManagerNext == Next \/ RouterNext

ManagerSpec == Init /\ [][ManagerNext]_vars

(* ---------------------------------------------------------------------- *)
(* Vocabulary of the properties                                            *)
(* ---------------------------------------------------------------------- *)
Returned == pc = "returned"

\* the calls handle made to the responder it chose, in order
ChosenCalls == SelectSeq(last.calls, LAMBDA c : c.role = "chosen")

\* the call handle made to the LLM Agent to escalate, if any
EscalationCalls == SelectSeq(last.calls, LAMBDA c : c.role = "escalation")

Escalated == EscalationCalls # <<>>

\* the chosen responder returned a reply (its raw reply)
RawReturned ==
  ChosenCalls # <<>> /\ ChosenCalls[Len(ChosenCalls)].out.kind = "return"

RawReply == ChosenCalls[Len(ChosenCalls)].out.reply

\* the caller named no responder, or named "auto" in some letter case
AutoAsked ==
  \/ last.agent_name \in {NoneVal, <<>>}
  \/ /\ Len(last.agent_name) = 4
     /\ last.agent_name[1] \in {"a", "A"}
     /\ last.agent_name[2] \in {"u", "U"}
     /\ last.agent_name[3] \in {"t", "T"}
     /\ last.agent_name[4] \in {"o", "O"}

CredentialsPresent == last.api_key # NoneVal /\ Len(last.api_key) > 0

\* the override map disables escalation for the responder n
Disabled(n) == last.agent_fallbacks.given /\ n \in last.agent_fallbacks.falsy

\* the three conditions under which handle looks at escalating at all
Eligible ==
  /\ last.resolved # LLMAgentName
  /\ CredentialsPresent
  /\ ~Disabled(last.resolved)

\* the text of the raw reply: the 'text' field of a structured reply, else the
\* bare string
RawText == IF RawReply.kind = "dict" /\ ~RawReply.has_text THEN <<>> ELSE RawReply.text

\* the trimmed text is shorter than 30 characters
ShortText == Len(Strip(RawText)) < 30

\* the lower-cased trimmed text holds a hedge phrase
HedgeText ==
  \E k \in 1..Len(insufficient_phrases) :
    Contains(insufficient_phrases[k], Lower(Strip(RawText)))

\* the raw reply is structured and flags itself as a fallback
FlaggedFallback ==
  RawReply.kind = "dict" /\ (RawReply.fallback \/ RawReply.fallback_reason # <<>>)

RawInsufficient == ShortText \/ HedgeText \/ FlaggedFallback

(* ---------------------------------------------------------------------- *)
(* C1                                                                      *)
(* ---------------------------------------------------------------------- *)
\* C1: every dispatch hands the caller a Reply, a str or a dict; no exception
\* of a responder leaves handle
C1_AlwaysReply ==
  Returned => /\ last.out.kind = "return"
              /\ last.out.reply.kind \in {"str", "dict"}

\* a responder body raised, the escalation call raised too, and a reply came back
C1_Witness ==
  /\ Returned
  /\ \E i \in 1..Len(last.calls) :
       last.calls[i].ran /\ last.calls[i].out.kind = "raise" /\ last.calls[i].role = "chosen"
  /\ last.out.kind = "return"

C3_UnknownAgent ==
  Returned /\ ~AutoAsked /\ last.agent_name \notin DOMAIN Registry =>
    /\ last.out = Return(Str(UnknownAgentPrefix \o last.agent_name))
    /\ last.calls = <<>>

\* an unknown name was dispatched with credentials
C3_Witness ==
  /\ Returned
  /\ last.agent_name = Nobody
  /\ CredentialsPresent
  /\ last.out.kind = "return"
  /\ last.calls = <<>>

(* ---------------------------------------------------------------------- *)
(* C4                                                                     *)
(* ---------------------------------------------------------------------- *)
\* C4: whenever an invocation of the chosen responder raises, handle returns
\* "Agent error: <message>" with the message of that exception, and does not
\* escalate.  The code does not keep this: see the ladder, which takes a
\* TypeError of the body for a rejected call and invokes the responder again
C4_RaiseGivesAgentError ==
  Returned =>
    \A i \in 1..Len(ChosenCalls) :
      ChosenCalls[i].ran /\ ChosenCalls[i].out.kind = "raise" =>
        /\ last.out = Return(Str(AgentErrorPrefix \o ChosenCalls[i].out.msg))
        /\ ~Escalated

(* ---------------------------------------------------------------------- *)
(* C5                                                                     *)
(* ---------------------------------------------------------------------- *)
\* C5: handle escalates only if the chosen responder is not the LLM Agent,
\* credentials are present and the override map does not disable the
\* responder; without credentials it never escalates and the reply carries no
\* fallback_from
C5_EscalationOnlyIfEligible ==
  Returned =>
    /\ Escalated => /\ last.resolved # LLMAgentName
                    /\ CredentialsPresent
                    /\ ~Disabled(last.resolved)
    /\ ~CredentialsPresent =>
         /\ ~Escalated
         /\ last.out.kind = "return" => last.out.reply.fallback_from = <<>>

\* an override map was given that does not name the chosen responder, and
\* handle escalated
C5_Witness ==
  /\ Returned
  /\ Escalated
  /\ last.agent_fallbacks.given
  /\ last.resolved \notin last.agent_fallbacks.keys

(* ---------------------------------------------------------------------- *)
(* C6                                                                     *)
(* ---------------------------------------------------------------------- *)
\* C6: when escalation is eligible, handle escalates if and only if the raw
\* reply's trimmed text is shorter than 30 characters, or its lower-cased text
\* holds a hedge phrase, or the reply is structured and flags a fallback; a
\* reply for which none holds is returned unchanged
C6_InsufficientIff ==
  Returned /\ RawReturned /\ Eligible =>
    /\ Escalated <=> (ShortText \/ HedgeText \/ FlaggedFallback)
    /\ ~(ShortText \/ HedgeText \/ FlaggedFallback) => last.out = Return(RawReply)

\* a bare-string reply of more than 30 characters that hedges in capital
\* letters was escalated
C6_Witness ==
  /\ Returned /\ RawReturned /\ Eligible
  /\ RawReply.kind = "str"
  /\ ~ShortText
  /\ HedgeText
  /\ \E i \in 1..Len(RawText) : RawText[i] \in {"N", "O", "T"}
  /\ Escalated

(* ---------------------------------------------------------------------- *)
(* C7                                                                     *)
(* ---------------------------------------------------------------------- *)
\* C7: on an insufficient raw reply with escalation eligible, handle calls the
\* LLM Agent once with the same query, the caller's fallback preference and
\* credentials and use_web = True whatever the caller's flag; the value
\* returned is the LLM Agent's reply as a dict whose fallback_from is the
\* chosen responder's name, a bare string being wrapped as {text, fallback_from}
C7_EscalationCall ==
  Returned /\ RawReturned /\ Eligible /\ RawInsufficient =>
    /\ Len(EscalationCalls) = 1
    /\ LET e == EscalationCalls[1]
       IN  /\ e.agent = LLMAgentName
           /\ e.query = last.query
           /\ e.kwargs = {"fallback_pref", "api_key", "use_web"}
           /\ e.fallback_pref = last.fallback_pref
           /\ e.api_key = last.api_key
           /\ e.use_web = TRUE
           /\ e.out.kind = "return" =>
                /\ last.out.kind = "return"
                /\ last.out.reply.kind = "dict"
                /\ last.out.reply.fallback_from = last.resolved
                /\ last.out.reply.has_text
                /\ last.out.reply.text = e.out.reply.text
                /\ e.out.reply.kind = "dict" =>
                     last.out.reply = [e.out.reply EXCEPT !.fallback_from = last.resolved]
                /\ e.out.reply.kind = "str" =>
                     /\ ~last.out.reply.fallback
                     /\ last.out.reply.fallback_reason = <<>>
                     /\ last.out.reply.extra = ""

\* the caller's web flag was off, the LLM Agent answered the escalation with a
\* bare string, and the value returned is a dict that names the chosen responder
C7_Witness ==
  /\ Returned /\ Escalated
  /\ ~last.use_web
  /\ EscalationCalls[1].use_web
  /\ EscalationCalls[1].out.kind = "return"
  /\ EscalationCalls[1].out.reply.kind = "str"
  /\ last.out.reply.kind = "dict"
  /\ last.out.reply.fallback_from = last.resolved

(* ---------------------------------------------------------------------- *)
(* C8                                                                     *)
(* ---------------------------------------------------------------------- *)
\* C8: if the escalation call raises, handle returns the chosen responder's
\* raw reply unchanged: no agent error, no fallback_from
C8_EscalationFailureKeepsReply ==
  Returned /\ Escalated /\ EscalationCalls[1].out.kind = "raise" =>
    /\ last.out = Return(RawReply)
    /\ last.out.reply.fallback_from = <<>>

\* the escalation call raised on a structured raw reply, which came back
C8_Witness ==
  /\ Returned /\ Escalated
  /\ EscalationCalls[1].out.kind = "raise"
  /\ RawReply.kind = "dict"
  /\ last.out = Return(RawReply)

(* ---------------------------------------------------------------------- *)
(* C9                                                                     *)
(* ---------------------------------------------------------------------- *)
\* C9 as stated: with credentials present, handle escalates on every dispatch
\* whose raw reply is insufficient
C9_EscalatesOnEveryInsufficient ==
  Returned /\ RawReturned /\ CredentialsPresent /\ RawInsufficient => Escalated

\* C9, amended: with credentials present, whether handle escalates is fixed by
\* the chosen responder, the override map and the raw reply: it escalates
\* exactly when the responder is not the LLM Agent, the override map does not
\* disable it and the raw reply is insufficient
C9_EscalationDecision ==
  Returned /\ RawReturned /\ CredentialsPresent =>
    (Escalated <=> /\ last.resolved # LLMAgentName
                   /\ ~Disabled(last.resolved)
                   /\ RawInsufficient)

\* with credentials, a raw reply that flags a fallback was escalated although
\* its text is long and does not hedge
C9_Witness ==
  /\ Returned /\ RawReturned /\ CredentialsPresent
  /\ FlaggedFallback /\ ~ShortText /\ ~HedgeText
  /\ Escalated

(* ---------------------------------------------------------------------- *)
(* C10                                                                    *)
(* ---------------------------------------------------------------------- *)
\* C10: the calls to the chosen responder are made with (fallback_pref,
\* api_key, use_web), then (fallback_pref, api_key), then the query alone; the
\* next one is made only if the call contract rejected the one before, and the
\* last one is the first the contract accepts.  The code does not keep this:
\* it also goes on after an accepted call whose body raised a TypeError
C10_LadderStopsAtFirstAccepted ==
  Returned /\ ChosenCalls # <<>> =>
    /\ \A k \in 1..Len(ChosenCalls) : ChosenCalls[k].kwargs = LadderKwargs[k]
    /\ \A k \in 1..(Len(ChosenCalls) - 1) : ~ChosenCalls[k].ran
    /\ ChosenCalls[Len(ChosenCalls)].ran

(* ---------------------------------------------------------------------- *)
(* Vocabulary of the properties of the router                              *)
(* ---------------------------------------------------------------------- *)
\* detect_intent has returned
Detected == routed.op = "detect_intent"

\* suggest_agents has returned
Suggested == routed.op = "suggest_agents"

\* two scores were bucketed
Bucketed == routed.op = "bucket"

\* the score of an identity before normalization, in the call that returned
PreNormalization(id) == IF Detected THEN routed.run.scores[id] ELSE routed.run.score[id]

\* a score as the decimal number it stands for, in tenths:
\* 0.7 * pattern matches + 0.3 * keywords contained + the boosts
StatedScore(id, query) ==
  (PatternWeight * pattern_matches(id, Lower(query)))
  + (KeywordWeight * keyword_matches(id, Lower(query)))
  + (IF id = "Math" /\ looks_like_math(query) THEN MathBoost ELSE 0)
  + (IF id = "Math" /\ WordMatches({<<"g","e","o","m","e","t","r","y">>}, Lower(query)) > 0
     THEN GeometryBoost ELSE 0)
  + (IF id = "AP STEM" /\ \E c \in StemCues : Contains(c, Lower(query))
     THEN StemBoost ELSE 0)

(* ---------------------------------------------------------------------- *)
(* C11                                                                    *)
(* ---------------------------------------------------------------------- *)
\* C11: in detect_intent and in suggest_agents, the score of every identity
\* before normalization is 0.7 * (matches of its pattern in the lower-cased
\* query) + 0.3 * (its keywords contained in the lower-cased query), + 3.0
\* for Math when looks_like_math holds, + 2.0 for Math when the word geometry
\* occurs, + 2.0 for AP STEM when a cue word occurs, and nothing else; it is
\* the float of that value, at most one unit in the last place below the
\* nearest double, it is not negative, and the two functions give the same
\* score to the same query
C11_PreNormalizationScore ==
  Detected \/ Suggested =>
    \A id \in DOMAIN AGENT_KEYWORDS :
      /\ Tenths(PreNormalization(id)) = StatedScore(id, routed.query)
      /\ PreNormalization(id) \in {Float(StatedScore(id, routed.query), 0),
                                   Float(StatedScore(id, routed.query), -1)}
      /\ PreNormalization(id) >= 0
      /\ Detected => PreNormalization(id) = suggest_score(id, routed.query)
      /\ Suggested => PreNormalization(id) = score(id, routed.query)

\* suggest_agents scored a query that matches Math's pattern and a Math keyword,
\* looks like math and holds the word geometry
C11_Witness ==
  /\ Suggested
  /\ routed.run.score["Math"] =
       Float(PatternWeight + KeywordWeight + MathBoost + GeometryBoost, 0)
  /\ routed.run.score["Music"] = 0

(* ---------------------------------------------------------------------- *)
(* C12                                                                    *)
(* ---------------------------------------------------------------------- *)
\* bucket(min(score / K, 1.0)) of a score of t tenths, in decimal arithmetic:
\* Low below 0.3 * K, High from 0.7 * K
StatedBucket(t, K) ==
  IF t < 3 * K THEN "low" ELSE IF t < 7 * K THEN "medium" ELSE "high"

AllZero == Detected /\ \A id \in DOMAIN AGENT_KEYWORDS : routed.run.scores[id] = 0

\* the names detect_intent has for the identities of the trigger table
TableNames == {name_map[id] : id \in DOMAIN AGENT_KEYWORDS}

UnknownName == <<"u","n","k","n","o","w","n">>

\* C13 as stated: when every identity scores 0, detect_intent reports the
\* identity 'unknown' with low confidence
C13_ReportsUnknown ==
  AllZero => routed.run.result = [name |-> UnknownName, confidence |-> "low"]

\* C13, amended: when every identity scores 0, detect_intent reports the name
\* of the generic fallback responder, 'LLM Agent', with low confidence, and
\* not the name of an identity of the trigger table
C13_ZeroScoresGiveLLMAgent ==
  AllZero =>
    /\ routed.run.result = [name |-> LLMAgentName, confidence |-> "low"]
    /\ routed.run.result.name \notin TableNames

\* detect_intent scored a query that is not empty and matches nothing
C13_Witness == AllZero /\ routed.query # <<>>

(* ---------------------------------------------------------------------- *)
(* C14                                                                    *)
(* ---------------------------------------------------------------------- *)
\* C14: of two scores a < b bucketed with the same divisor (both with 14.0 or
\* both with 12.0), a is not put in a higher bucket than b, in the order
\* low < medium < high
C14_BucketingMonotonic ==
  Bucketed /\ routed.a < routed.b =>
    /\ routed.run.a = "high" => routed.run.b = "high"
    /\ routed.run.a = "medium" => routed.run.b \in {"medium", "high"}
    /\ routed.run.a \in {"low", "medium", "high"}
    /\ routed.run.b \in {"low", "medium", "high"}

\* with the divisor 12.0, the score below was put in low and the score on
\* the cut 3.6 in medium
C14_Witness ==
  /\ Bucketed /\ routed.K = SuggestNorm
  /\ Tenths(routed.a) < 3 * SuggestNorm /\ routed.run.a = "low"
  /\ Tenths(routed.b) = 3 * SuggestNorm /\ routed.run.b = "medium"

(* ---------------------------------------------------------------------- *)
(* C15                                                                    *)
(* ---------------------------------------------------------------------- *)
\* the query of the call holds a digit with one of `letters` right after it
DigitThenLetter(letters) ==
  \E i \in 1..(Len(routed.query) - 1) :
    routed.query[i] \in Digits /\ routed.query[i + 1] \in letters

\* C15 as stated: whenever the query holds a digit with a letter right after
\* it, looks_like_math holds and the Math score before normalization is at
\* least 3.0
C15_DigitLetterBoost ==
  (Detected \/ Suggested) /\ DigitThenLetter(Letters \cup UnicodeLetters) =>
    /\ Detected => routed.run.math
    /\ PreNormalization("Math") >= Float(MathBoost, 0)

\* C15, amended: whenever the query holds a decimal digit with an ASCII letter
\* (a-z, A-Z) right after it, looks_like_math holds and the Math score before
\* normalization is at least 3.0
C15_DigitAsciiLetterBoost ==
  (Detected \/ Suggested) /\ DigitThenLetter(Letters) =>
    /\ Detected => routed.run.math
    /\ PreNormalization("Math") >= Float(MathBoost, 0)

\* detect_intent scored a query with a digit and an ASCII letter after it that
\* matches no Math keyword: the Math score is the boost alone
C15_Witness ==
  /\ Detected /\ DigitThenLetter(Letters)
  /\ routed.run.math
  /\ routed.run.scores["Math"] = Float(MathBoost, 0)

(* ---------------------------------------------------------------------- *)
(* C16                                                                    *)
(* ---------------------------------------------------------------------- *)
\* C16: a dispatch that names no responder, with the query '2+3', is resolved
\* to the Math Agent, and the calls handle makes to the chosen responder are
\* calls to the Math Agent.  The code does not keep this: the Math score of
\* '2+3' is the boost 3.0 alone, 3.0 / 14.0 is below 0.3, and detect_intent
\* reports ('LLM Agent', 'low')
C16_SumGoesToMathAgent ==
  Returned /\ last.agent_name = NoneVal /\ last.query = <<"2","+","3">> =>
    /\ last.resolved = MathAgentName
    /\ ChosenCalls # <<>>
    /\ \A k \in 1..Len(ChosenCalls) : ChosenCalls[k].agent = MathAgentName

(* ---------------------------------------------------------------------- *)
(* C17                                                                    *)
(* ---------------------------------------------------------------------- *)
\* C17: a dispatch that names the identity 'AP STEM', with the query
\* 'derivative of x^2', is served by the AP STEM Agent of the registry: handle
\* calls it and returns what it replied.  The code does not keep this: the
\* registry has the key 'AP STEM Agent' only, and handle returns
\* 'Unknown agent: AP STEM' without calling any responder
C17_IdentityReachesAPSTEMAgent ==
  /\ Returned /\ last.agent_name = APSTEMIdentity
  /\ last.query = <<"d","e","r","i","v","a","t","i","v","e"," ","o","f"," ","x","^","2">>
  => /\ ChosenCalls # <<>>
     /\ \A k \in 1..Len(ChosenCalls) : ChosenCalls[k].agent = APSTEMAgentName
     /\ last.out # Return(Str(UnknownAgentPrefix \o APSTEMIdentity))

(* ---------------------------------------------------------------------- *)
(* C18                                                                    *)
(* ---------------------------------------------------------------------- *)
\* C18 as stated: on the empty query, the raw reply of whichever responder
\* was chosen is shorter than 30 characters, hence insufficient, and handle
\* escalates whenever the three conditions of escalation hold
C18_EmptyQueryReplyIsShort ==
  Returned /\ last.query = <<>> /\ RawReturned =>
    /\ ShortText
    /\ RawInsufficient
    /\ Eligible => Escalated

\* C18, amended: on the empty query, every responder returns its fixed prompt,
\* which is not shorter than 30 characters; the heuristic finds it
\* insufficient for the Math Agent only, whose prompt holds the phrase
\* 'please provide', so that when the three conditions of escalation hold,
\* handle escalates exactly when the responder is the Math Agent
C18_EmptyQueryPrompt ==
  Returned /\ last.query = <<>> /\ RawReturned =>
    /\ RawReply = EmptyQueryReply[agents[last.resolved]]
    /\ ~ShortText
    /\ RawInsufficient <=> last.resolved = MathAgentName
    /\ Eligible => (Escalated <=> last.resolved = MathAgentName)

\* on the empty query and with credentials, the High School Agent's prompt
\* was returned without escalation
C18_Witness ==
  /\ Returned /\ last.query = <<>> /\ RawReturned
  /\ last.resolved = HighSchoolAgentName
  /\ Eligible /\ ~Escalated
  /\ last.out = Return(EmptyQueryReply["HighSchoolAgent"])

(* ---------------------------------------------------------------------- *)
(* C19                                                                    *)
(* ---------------------------------------------------------------------- *)
\* C19: when agent_name is None and auto_route is False, handle detects no
\* intent.  The code does not keep this: it sets auto_route to True and calls
\* detect_intent whenever agent_name is empty or 'auto', whatever the argument
C19_NoDetectionUnlessAutoRoute ==
  Returned /\ last.agent_name = NoneVal /\ ~last.auto_route => last.intent = NoIntent

(* ---------------------------------------------------------------------- *)
(* C20                                                                    *)
(* ---------------------------------------------------------------------- *)
\* C20: a dispatch that names a responder of the registry and carries no
\* credentials calls that responder and no other, and when the responder
\* returns a reply, handle returns that very reply: a str stays a str, nothing
\* is wrapped or annotated, and the LLM Agent is not called to escalate
C20_ExplicitWithoutCredentials ==
  Returned /\ last.agent_name \in DOMAIN agents /\ ~CredentialsPresent =>
    /\ last.resolved = last.agent_name
    /\ last.intent = NoIntent
    /\ last.calls # <<>>
    /\ \A k \in 1..Len(last.calls) :
         last.calls[k].role = "chosen" /\ last.calls[k].agent = last.agent_name
    /\ RawReturned => last.out = Return(RawReply)

\* without credentials, a named responder's short str reply was returned as
\* it is
C20_Witness ==
  /\ Returned /\ last.agent_name = MathAgentName /\ ~CredentialsPresent
  /\ RawReturned /\ RawReply.kind = "str" /\ ShortText
  /\ last.out = Return(RawReply)

(* ---------------------------------------------------------------------- *)
(* C21  Query handling leaves the trigger table and the registry as       *)
(*      construction made them                                            *)
(* ---------------------------------------------------------------------- *)
\* C21: no call of handle, detect_intent or suggest_agents adds, removes or
\* replaces an entry of the registry or of the router's trigger table: every
\* step leaves both as they were, so both stay as constructed.
C21_TablesReadOnly == [][agents' = agents /\ intent_router' = intent_router]_vars

\* a dispatch that looked up a name the registry does not have has returned
C21_Witness ==
  /\ pc = "returned"
  /\ last.resolved \notin DOMAIN Registry
  /\ agents = Registry

(* ---------------------------------------------------------------------- *)
(* C22  The memoization of the Math responder is transparent and bounded  *)
(* ---------------------------------------------------------------------- *)
\* what MathAgent.handle returns for the query with nothing memoized
Uncached(query) ==
  IF Strip(query) = <<>>
  THEN EmptyQueryReply["MathAgent"]
  ELSE compute_math(memo.has_sympy, Strip(query))

\* C22: after any sequence of calls, repeated queries and evictions included,
\* the reply of the last call is the reply an uncached computation gives for
\* its query, also when the entry of that query was dropped before, and the
\* memo holds at most 256 entries, no two of them for the same text.
C22_MemoTransparent ==
  /\ Len(memo.cache) <= maxsize
  /\ \A i, j \in 1..Len(memo.cache) : memo.cache[i].key = memo.cache[j].key => i = j
  /\ memo.query # NoneVal => memo.reply = Uncached(memo.query)

\* the number whose entry was dropped last is asked again, with a blank before
\* it, while the memo is full
C22_Witness ==
  /\ Len(memo.cache) = maxsize
  /\ memo.dropped_before
  /\ ~memo.hit
  /\ memo.query # Strip(memo.query)

(* ---------------------------------------------------------------------- *)
(* C23  Web augmentation puts the summary of the search into the prompt   *)
(* ---------------------------------------------------------------------- *)
\* LLMAgent.handle has returned from a call that asked for web context and for
\* which search_web_multi handed back a value
WebAugmented ==
  /\ web.pc = "returned"
  /\ web.use_web
  /\ web.res.type \in {"str", "dict", "tuple"}

\* a summary that is not empty and is neither a 403 nor a 'no results' text
UsableSummary(text) ==
  /\ text # <<>>
  /\ ~Contains(<<"4","0","3">>, Lower(text))
  /\ ~MatchAt(<<"n","o"," ","r","e","s","u","l","t","s">>, Lower(text), 1)

\* C23: what the web-search call hands to LLMAgent.handle is a structured record
\* {text, provider, urls}, and when web augmentation is on and its summary is
\* usable, the prompt sent to the generative collaborator holds that summary
\* as web context.
C23_WebContextInPrompt ==
  WebAugmented =>
    /\ web.res.type = "dict"
    /\ UsableSummary(web.res.text) => web.prompt.web_context = web.res.text

(* ---------------------------------------------------------------------- *)
(* C24  The provider fan-out: at most 4 workers, first useful result      *)
(* ---------------------------------------------------------------------- *)
\* the providers whose call is still running in the pool
Running == {p \in DOMAIN web.tasks : web.tasks[p].state = "running"}

\* a result that is not empty and is no 403/forbidden, 'no results' or
\* 'web search error' result
UsefulResult(out) ==
  /\ out.type \in {"str", "dict", "tuple"}
  /\ out.text # <<>>
  /\ ~Contains(<<"4","0","3">>, Lower(out.text))
  /\ ~Contains(<<"f","o","r","b","i","d","d","e","n">>, Lower(out.text))
  /\ ~MatchAt(<<"n","o"," ","r","e","s","u","l","t","s">>, Lower(out.text), 1)
  /\ ~MatchAt(Lower(SubSeq(WebSearchError, 1, 16)), Lower(out.text), 1)

\* the providers that completed with a useful result
CompletedUseful ==
  {p \in DOMAIN web.tasks : web.tasks[p].state = "done" /\ UsefulResult(web.tasks[p].out)}

\* C24: at most 4 providers run at a time; search_web_multi is over as soon as
\* one provider has completed with a useful result, whatever is still running;
\* the providers that contributed are those with a useful result, so one that
\* raised or brought an empty or error result contributes nothing; and such a
\* provider does not keep a useful result of another from being returned.
C24_FirstUsefulFanOut ==
  /\ Cardinality(Running) <= max_workers
  /\ (web.pc = "searching" /\ CompletedUseful # {}) => Running = {}
  /\ {web.providers_tried[i] : i \in 1..Len(web.providers_tried)} = CompletedUseful
  /\ (web.pc \in {"asking", "returned"} /\ CompletedUseful # {}) => web.res.type # "raise"

\* the attempts the call under way has made
Attempts == Len(request.outcomes)

\* C25: a call through the retry wrapper makes at most retries + 1 attempts;
\* the value of the first attempt that succeeds is returned and nothing is
\* attempted after it; after failed attempt k the wrapper waits
\* backoff * 2^k, and it waits only when another attempt follows; when every
\* attempt failed the caller gets the exception of the last attempt
C25_RetryWithBackoff ==
  request.pc # "idle" =>
    /\ Attempts <= request.retries + 1
    /\ \A k \in 1..Attempts :
         request.outcomes[k].kind = "return" =>
           k = Attempts /\ request.pc = "returned" /\ request.out = request.outcomes[k]
    /\ request.pc = "returned" => Attempts >= 1 /\ request.outcomes[Attempts].kind = "return"
    /\ Len(request.sleeps) = (IF request.pc = "attempting" THEN Attempts ELSE Attempts - 1)
    /\ \A k \in 1..Len(request.sleeps) :
         request.sleeps[k] = request.backoff * 2 ^ (k - 1)
    /\ request.pc = "raised" =>
         /\ Attempts >= 1
         /\ request.out = request.outcomes[Attempts]
         /\ request.out.at = Attempts - 1
         /\ \A k \in 1..Attempts : request.outcomes[k].kind # "return"

\* the defaults: three attempts failed, with waits of 0.5 s and 1 s between
\* them, and the third exception, not the first, reached the caller
C25_Witness ==
  /\ request.pc = "raised"
  /\ request.retries = DefaultRetries
  /\ request.backoff = DefaultBackoff
  /\ Attempts = DefaultRetries + 1
  /\ request.sleeps = <<500, 1000>>
  /\ request.outcomes[1].value # request.out.value

(* ---------------------------------------------------------------------- *)
(* C26                                                                    *)
(* ---------------------------------------------------------------------- *)
\* the responders of the registry that detect_intent has no identity for
NeverDetected == {SATACTAgentName, CollegeAdmissionAgentName}

Compared == routed # NoCall /\ routed.op = "suggest_and_detect"

\* low < medium < high
Rank(c) == CASE c = "low" -> 0 [] c = "medium" -> 1 [] c = "high" -> 2

\* C27: when detect_intent selects a specialized responder (medium or high),
\* the first suggestion for the same query names that responder, with a
\* category not below the one of detect_intent; suggest_agents returns
\* min(top_n, 6) entries, in non-increasing order of the normalized score, and
\* none of them names 'LLM Agent'
C27_SuggestionsAgreeWithPrimary ==
  Compared =>
    LET primary == routed.run.primary
        results == routed.run.suggest.results
        sc == routed.run.suggest.scores
        sorted == routed.run.suggest.sorted_suggestions
    IN  /\ primary.confidence \in {"medium", "high"} /\ routed.top_n >= 1 =>
             /\ results[1].name = primary.name
             /\ Rank(results[1].confidence) >= Rank(primary.confidence)
        /\ Len(results) = (IF routed.top_n < Len(Identities) THEN routed.top_n
                           ELSE Len(Identities))
        /\ \A r \in 1..(Len(results) - 1) : sc[sorted[r]] >= sc[sorted[r + 1]]
        /\ \A r \in 1..Len(results) : results[r].name # LLMAgentName

(* ---------------------------------------------------------------------- *)
(* C28                                                                    *)
(* ---------------------------------------------------------------------- *)
\* the calls to the chosen responder that were bound, so that its body ran
BodyRuns == {k \in 1..Len(ChosenCalls) : ChosenCalls[k].ran}

\* the chosen responder's handle has a parameter api_key
TakesCredentials == "api_key" \in HandleParams[agents[last.resolved]]

\* C28: within one dispatch the body of the chosen responder runs at most
\* once, a second or third call is made only after a call that was rejected
\* before the body ran, and a responder whose handle takes api_key runs with
\* the caller's credentials whenever the caller gave some
C28_BodyOnceWithCredentials ==
  Returned /\ ChosenCalls # <<>> =>
    /\ Cardinality(BodyRuns) <= 1
    /\ \A k \in 2..Len(ChosenCalls) : ~ChosenCalls[k - 1].ran
    /\ TakesCredentials /\ CredentialsPresent =>
         \A k \in BodyRuns : ChosenCalls[k].api_key = last.api_key

(* ---------------------------------------------------------------------- *)
(* C29                                                                    *)
(* ---------------------------------------------------------------------- *)
\* the positions of the stack at which an LLMAgent runs
LLMFrames == {i \in 1..Len(nest.stack) : nest.stack[i].cls = "LLMAgent"}

\* C29: a dispatch invokes the chosen responder at most three times and the
\* LLM Agent at most once to escalate; the escalation call is the last call
\* and its reply is returned, insufficient or not; the responder that the LLM
\* Agent's local fallback calls gets no credentials and calls no responder, so
\* at most one LLMAgent is running at a time and the calls nest to at most
\* three
C29_BoundedDispatch ==
  /\ Returned =>
       /\ Len(ChosenCalls) <= 3
       /\ Len(EscalationCalls) <= 1
       /\ Len(last.calls) = Len(ChosenCalls) + Len(EscalationCalls)
       /\ Escalated =>
            /\ last.calls[Len(last.calls)].role = "escalation"
            /\ EscalationCalls[1].out.kind = "return" =>
                 /\ last.out.kind = "return"
                 /\ last.out.reply.text = resp_text(EscalationCalls[1].out.reply)
                 /\ last.out.reply.fallback_from = last.resolved
  /\ Cardinality(LLMFrames) <= 1
  /\ Len(nest.stack) <= 3
  /\ Len(nest.invoked) <= 3
  /\ \A i \in LLMFrames : \A j \in (i + 1)..Len(nest.stack) :
       /\ nest.stack[j].cls \in {"APSTEMAgent", "HighSchoolAgent"}
       /\ nest.stack[j].api_key = NoneVal
       /\ j = Len(nest.stack)
       /\ NestedCalls(nest.stack[j].cls, nest.stack[j].api_key) = {}

\* the Math Agent, given credentials, asked the LLM Agent, whose local
\* fallback is running the AP STEM Agent
C29_Witness ==
  /\ Len(nest.stack) = 3
  /\ nest.stack[1].cls = "MathAgent" /\ Truthy(nest.stack[1].api_key)
  /\ nest.stack[2].cls = "LLMAgent"
  /\ nest.stack[3] = Frame("APSTEMAgent", NoneVal)

(* ---------------------------------------------------------------------- *)
(* C30                                                                    *)
(* ---------------------------------------------------------------------- *)
\* the raw reply is a dict without 'text', or with an empty one
Textless == RawReply.kind = "dict" /\ (~RawReply.has_text \/ RawReply.text = <<>>)

\* the raw reply is neither a str nor a dict
Untyped == RawReply.kind \notin {"str", "dict"}

\* C30: when escalation is eligible, a dict reply without 'text', or with an
\* empty one, is insufficient whatever else it carries, and so is a reply that
\* is neither a str nor a dict: handle escalates; and when the LLM Agent
\* answers, the Reply is made of its answer and fallback_from alone, with no
\* field of the raw reply
C30_TextlessRepliesEscalate ==
  Returned /\ RawReturned /\ Eligible =>
    /\ Textless \/ Untyped => Escalated
    /\ Escalated /\ EscalationCalls[1].out.kind = "return" =>
         LET e == EscalationCalls[1].out.reply
             got == last.out.reply
         IN  /\ last.out.kind = "return"
             /\ got.kind = "dict"
             /\ got.fallback_from = last.resolved
             /\ got.text = e.text
             /\ got.fallback = e.fallback
             /\ got.fallback_reason = e.fallback_reason
             /\ got.extra = e.extra

\* the SAT/ACT Agent's practice question, a dict without 'text', was replaced
\* by the LLM Agent's answer, which does not carry the question
C30_Witness ==
  /\ Returned /\ RawReturned /\ Eligible
  /\ Textless /\ RawReply.extra = "question"
  /\ Escalated /\ EscalationCalls[1].out.kind = "return"
  /\ last.out.reply.extra # "question"

====
